---- MODULE Spec2Model ----
(***************************************************************************)
(* The agent loop of plancode (agent/loop.py): run_planning_agent drives   *)
(* a conversation with the remote reasoning service and dispatches the     *)
(* tool calls of each reply through execute_tool.                          *)
(*                                                                         *)
(* Environment.  The remote service and the world behind the tools are     *)
(* not code of the repository.  The service is modelled as repeating one   *)
(* reply (script), drawn at Init from every stop reason and every content  *)
(* of at most MaxBlocks blocks; at any request it may instead give a final *)
(* answer, or the request may fail.  The world is deterministic per call:  *)
(* which regex compiles and which proposal the operator approves are       *)
(* fixed, and the calls of Calls cover both outcomes of each.              *)
(*                                                                         *)
(* Display.  ui/display.py prints every message through rich with markup   *)
(* enabled and the message interpolated unescaped, so a text holding a     *)
(* closing tag that matches no open tag ("[/health]") makes the print      *)
(* raise rich.errors.MarkupError.                                          *)
(*                                                                         *)
(* Plan model.  models/plan.py and the persistence of tools/workflow.py    *)
(* are not called by the loop; PlanSpec is the calls of that interface on  *)
(* one plan, in any order: the three mutators, update_plan_step, the two   *)
(* queries, save_plan, load_plan and auto_save_plan.  The clock is read in *)
(* ticks, of which TicksPerSecond make a second; isoformat keeps the tick, *)
(* the checkpoint name keeps the second.                                   *)
(*                                                                         *)
(* Tools.  ToolSpec is one call of execute_tool, of auth.get_api_key or of *)
(* filesystem.list_project_structure on any input: what the operator types *)
(* at the approval prompt, how long a command runs, the environment        *)
(* variables and key files, and project trees of up to MaxLevel levels.    *)
(* It also holds rows of calls of execute_tool on one project: read_file   *)
(* and write_file one after the other, and a write or a command before     *)
(* and after the approval gate; and single calls of save_plan, load_plan   *)
(* and resume_plan on a directory of plan files.                           *)
(*                                                                         *)
(* Files.  fs is the disk by location: a path is followed through its ..   *)
(* components, and joining an absolute path to the project root gives the  *)
(* absolute path, as pathlib does.  Files can be written and directories   *)
(* cannot; a call leaves the steps it made on the disk in effects.  The    *)
(* project of the loop holds app.py and its backup as write_file leaves    *)
(* them.                                                                   *)
(***************************************************************************)
EXTENDS Integers, Sequences, FiniteSets, TLC

VARIABLES
    script,        \* the reply the remote service repeats (environment)
    pc,            \* position in run_planning_agent
    iteration,     \* loop.py:518
    messages,      \* loop.py:511, the conversation history
    response,      \* loop.py:528, the last reply received (None before the first)
    blockIdx,      \* position of the for loop of loop.py:556 in response.content
    tool_results,  \* loop.py:554
    inflight,      \* service requests issued and not yet answered
    running,       \* correlation ids of the tool calls executing now
    displayed,     \* what the loop reported through display.*
    requests,      \* number of client.messages.create calls issued (history)
    executed,      \* log of the calls handed to execute_tool (history)
    plan,          \* the ImplementationPlan instance (models/plan.py)
    authored,      \* the plan as it was authored (history)
    now,           \* datetime.now(), in ticks of the clock
    files,         \* the files written by save_plan, by name
    lastOp,        \* the last call on the plan and the plan before it (history)
    unsaved,       \* phase-status mutations since the last checkpoint (history)
    checkpoints,   \* number of auto_save_plan calls (history)
    planCalls,     \* number of calls made on the plan and its storage (history)
    called,        \* log of the calls made on the tools and on auth.py directly (history)
    fs             \* the files and directories the file tools find, by location

\* The state of the plan model and of its persistence.
planVars == <<plan, authored, now, files, lastOp, unsaved, checkpoints, planCalls>>

\* The state of run_planning_agent.
loopVars == <<script, pc, iteration, messages, response, blockIdx, tool_results,
              inflight, running, displayed, requests, executed>>

\* The calls of the other functions of the repository.
toolVars == <<called, fs>>

vars == <<loopVars, planVars, toolVars>>

None == "None"

\* Python's None where a text is expected; texts are sequences of parts.
NoText == <<>>

\* The value of response before the first reply.
NoResponse == [stop_reason |-> "none", content |-> <<>>]

\* ------------------------------------------------------------------ bounds
\* Most content blocks in one reply of the service.
MaxBlocks == 2

\* Most calls made on one plan and its storage.
MaxCalls == 2

\* Most levels of entries below the project root.
MaxLevel == 4

\* ------------------------------------------------------- program constants
max_iterations == 50

\* tool_input.get("timeout", 300): the timeout of a run_command call that
\* names none, in seconds.
DefaultTimeout == 300

\* ---------------------------------------------------------------- catalog
\* The names of create_tool_definitions().
ToolCatalog ==
    {"list_project_structure", "read_file", "search_code", "find_definitions",
     "get_file_imports", "analyze_python_file", "get_project_summary",
     "find_related_files", "ask_developer_for_approval", "write_file",
     "run_command", "run_tests", "verify_build", "run_linter"}

\* The write-type capabilities: file mutation and command execution.
WriteTools == {"write_file", "run_command"}

\* The keys execute_tool reads with tool_input[...] (a KeyError when absent),
\* in the order the branch evaluates them.  Keys read with .get() are optional.
RequiredKeys(tool_name) ==
    CASE tool_name = "read_file" -> <<"file_path">>
      [] tool_name = "search_code" -> <<"pattern">>
      [] tool_name = "find_definitions" -> <<"symbol_name">>
      [] tool_name = "get_file_imports" -> <<"file_path">>
      [] tool_name = "analyze_python_file" -> <<"file_path">>
      [] tool_name = "find_related_files" -> <<"file_path">>
      [] tool_name = "ask_developer_for_approval" ->
             <<"phase_name", "plan_summary", "files_to_modify", "estimated_complexity">>
      [] tool_name = "write_file" -> <<"file_path", "content">>
      [] tool_name = "run_command" -> <<"cmd">>
      [] OTHER -> <<>>

\* ------------------------------------------------------------ environment
\* re.compile(pattern) of search_code raises re.error on these patterns, with
\* the text of ReError; the text for the second quotes the group name.
BadPatterns == {"(", "(?P<a[/b]>x)"}

ReError(pattern) ==
    IF pattern = "(" THEN "missing ), unterminated subpattern at position 0"
    ELSE "bad character in group name 'a[/b]' at position 4"

\* str() of the MarkupError rich raises: it quotes the offending tag.
MarkupErrorText == "closing tag '[/b]' at position 69 doesn't match any open tag"

\* The texts of the model in which rich finds a closing tag without an open
\* tag (rich/markup.py: a tag is "[" followed by one of a-z # / @).
StrayClosingTag ==
    {"bad character in group name 'a[/b]' at position 4",
     MarkupErrorText,
     "Added the [/health] endpoint.",
     "grep -rn '[/b]' docs",
     "plans[/b]/plan",
     "[/b]"}

\* What the terminal gives input() at the prompt of the approval gate, by the
\* proposal shown: the operator types y, types n, presses Enter on an empty
\* line, or there is no line to read (standard input is closed or at end of
\* file, as in a non-interactive run).
EndOfFile == <<>>

console_input(phase_name) ==
    CASE phase_name = "add health endpoint" -> <<"y">>
      [] phase_name = "rewrite everything" -> <<"n">>
      [] phase_name = "rename module" -> <<"">>
      [] OTHER -> EndOfFile

\* str() of the EOFError of input().
EOFErrorText == "EOF when reading a line"

\* Confirm.ask(..., default=True) of the approval gate, on the line read: rich
\* returns the default on an empty line and the choice on y or n.
Confirm_ask(phase_name) ==
    LET line == console_input(phase_name)[1]
    IN IF line = "" THEN TRUE ELSE line = "y"

\* subprocess.run(cmd, shell=True, timeout=timeout): how long the command
\* runs, in seconds, and the status it exits with when it is left to finish.
Duration(cmd) ==
    CASE cmd = "pytest" -> 10
      [] cmd = "make all" -> 400
      [] cmd = "grep -rn '[/b]' docs" -> 400
      [] OTHER -> 0

returncode(cmd) == IF cmd = "false" THEN 1 ELSE 0

\* Prompt.ask of the approval gate: the feedback the operator types.
Prompt_ask == "add tests"

\* The stop reasons of a reply; stop_sequence stands for every reason the loop
\* has no branch for.
StopReasons == {"end_turn", "tool_use", "max_tokens", "stop_sequence"}

TextBlock == [type |-> "text", text |-> "Done."]

RouteTextBlock == [type |-> "text", text |-> "Added the [/health] endpoint."]

ToolUse(name, input) == [type |-> "tool_use", name |-> name, input |-> input]

\* The content blocks the service may send, before correlation ids are given.
Calls ==
    { TextBlock,
      ToolUse("search_code", [pattern |-> "("]),
      ToolUse("search_code", [pattern |-> "(?P<a[/b]>x)"]),
      ToolUse("ask_developer_for_approval",
              [phase_name |-> "add health endpoint", plan_summary |-> "s",
               files_to_modify |-> <<"app.py">>, estimated_complexity |-> "high"]),
      ToolUse("ask_developer_for_approval",
              [phase_name |-> "rewrite everything", plan_summary |-> "s",
               files_to_modify |-> <<"app.py">>, estimated_complexity |-> "high"]),
      ToolUse("write_file", [file_path |-> "app.py", content |-> "x"]) }

RECURSIVE SeqsUpTo(_, _)
SeqsUpTo(S, n) ==
    IF n = 0 THEN {<<>>}
    ELSE LET shorter == SeqsUpTo(S, n - 1)
         IN shorter \cup {Append(s, x) : s \in {t \in shorter : Len(t) = n - 1}, x \in S}

Replies == [stop_reason : StopReasons, content : SeqsUpTo(Calls, MaxBlocks)]

\* The replies with which the service ends the conversation of its own accord:
\* a final message, which may name a route.
FinalAnswers ==
    {[stop_reason |-> "end_turn", content |-> <<TextBlock>>],
     [stop_reason |-> "end_turn", content |-> <<RouteTextBlock>>]}

\* The service gives every tool call of a reply its own correlation id.
WithIds(reply, it) ==
    [stop_reason |-> reply.stop_reason,
     content |-> [i \in 1..Len(reply.content) |->
                    IF reply.content[i].type = "tool_use"
                    THEN [type |-> "tool_use", id |-> <<it, i>>,
                          name |-> reply.content[i].name,
                          input |-> reply.content[i].input]
                    ELSE reply.content[i]]]

\* How a service request can fail: anthropic.APIError, or any other Exception.
RequestFailures == {"api_error", "unexpected_error"}

\* str() of the exception of a failed request.
RequestFailureText == "Connection error."

\* ---------------------------------------------------------------- display
\* console.print of a message made of these parts returns; otherwise it raises
\* MarkupError and prints nothing.
Renders(parts) == \A i \in DOMAIN parts : parts[i] \notin StrayClosingTag

Warning(what) == [level |-> "warning", what |-> what]

Error(what) == [level |-> "error", what |-> what]

Success(what) == [level |-> "success", what |-> what]

\* ------------------------------------------------------------------ paths
\* Path(text): the anchor ("/" for an absolute path), the components, and the
\* suffixes appended to the name of the last one.
PurePath(anchor, parts) == [anchor |-> anchor, parts |-> parts, appended |-> <<>>]

\* The file_path texts of the tool calls, parsed as Path does.
Path(text) ==
    CASE text = "app.py" -> PurePath("", <<"app.py">>)
      [] text = "docs" -> PurePath("", <<"docs">>)
      [] text = "../notes.txt" -> PurePath("", <<"..", "notes.txt">>)
      [] text = "/etc/motd" -> PurePath("/", <<"etc", "motd">>)

\* The project_path of the runs.
ProjectRoot == PurePath("/", <<"proj">>)

\* a / b of pathlib: an absolute b replaces a.
Join(a, b) ==
    IF b.anchor # "" THEN b
    ELSE [anchor |-> a.anchor, parts |-> a.parts \o b.parts, appended |-> b.appended]

\* file_path.with_suffix(file_path.suffix + ".backup"): the name followed by
\* .backup.
with_backup_suffix(path) == [path EXCEPT !.appended = @ \o <<".backup">>]

\* str(path), as the parts of a text.
RECURSIVE Slashed(_)
Slashed(parts) ==
    IF Len(parts) <= 1 THEN parts
    ELSE <<parts[1], "/">> \o Slashed(Tail(parts))

StrPath(path) == <<path.anchor>> \o Slashed(path.parts) \o path.appended

\* The components the operating system walks on open(path): a .. leaves the
\* directory reached so far (the root is its own parent).
RECURSIVE Walk(_, _)
Walk(reached, parts) ==
    IF parts = <<>> THEN reached
    ELSE IF parts[1] = ".."
    THEN Walk(IF reached = <<>> THEN <<>> ELSE SubSeq(reached, 1, Len(reached) - 1),
              Tail(parts))
    ELSE Walk(Append(reached, parts[1]), Tail(parts))

\* The location a path names: where open(path) arrives.
Location(path) == [parts |-> Walk(<<>>, path.parts), appended |-> path.appended]

\* The location lies below the directory.
Inside(location, directory) ==
    /\ Len(location.parts) > Len(directory.parts)
    /\ SubSeq(location.parts, 1, Len(directory.parts)) = directory.parts

\* What a location holds.
RegularFile(content) == [kind |-> "file", content |-> content]

Directory == [kind |-> "dir", content |-> ""]

\* The files outside the project, and the directory docs of the project.
Surroundings ==
    (Location(PurePath("/", <<"etc", "motd">>)) :> RegularFile("motd"))
    @@ (Location(PurePath("/", <<"notes.txt">>)) :> RegularFile("notes"))
    @@ (Location(PurePath("/", <<"proj", "docs">>)) :> Directory)

\* The project of the runs of the loop: app.py was written before, with the
\* content the calls of the service write, and so was its backup.
WrittenProject ==
    (Location(PurePath("/", <<"proj", "app.py">>)) :> RegularFile("x"))
    @@ (Location(with_backup_suffix(PurePath("/", <<"proj", "app.py">>)))
            :> RegularFile("x"))
    @@ Surroundings

\* The projects the file tools are called on: without app.py, with app.py,
\* and the project of the loop.
Projects_fs ==
    {Surroundings,
     (Location(PurePath("/", <<"proj", "app.py">>)) :> RegularFile("a")) @@ Surroundings,
     WrittenProject}

\* A step of a file capability on the filesystem, in the order made.
Copied(from, to) == [op |-> "copy", from |-> from, at |-> to, content |-> ""]

Written(at, content) == [op |-> "write", from |-> at, at |-> at, content |-> content]

Read(at) == [op |-> "read", from |-> at, at |-> at, content |-> ""]

\* The filesystem after the steps.
RECURSIVE Apply(_, _)
Apply(disk, effects) ==
    IF effects = <<>> THEN disk
    ELSE LET e == effects[1]
             next == CASE e.op = "copy" ->
                              [l \in DOMAIN disk \cup {e.at} |->
                                  IF l = e.at THEN disk[e.from] ELSE disk[l]]
                       [] e.op = "write" ->
                              [l \in DOMAIN disk \cup {e.at} |->
                                  IF l = e.at THEN RegularFile(e.content) ELSE disk[l]]
                       [] OTHER -> disk
         IN Apply(next, Tail(effects))

\* str() of the IsADirectoryError of open() and copy2 on a directory, and of
\* the FileNotFoundError of open() for reading: as the parts of a text.
IsADirectoryText(path) == <<"[Errno 21] Is a directory: '">> \o StrPath(path) \o <<"'">>

FileNotFoundText(path) ==
    <<"[Errno 2] No such file or directory: '">> \o StrPath(path) \o <<"'">>

\* ------------------------------------------------------------ capabilities
\* How a call ends: it raises exc or returns value; ran lists, in call order,
\* the capability functions and subprocesses the call started.
\* effects lists the steps the call made on the filesystem.
Raise(text) ==
    [raises |-> TRUE, exc |-> text, value |-> [error |-> NoText], ran |-> <<>>,
     effects |-> <<>>]

Return(value) ==
    [raises |-> FALSE, exc |-> "", value |-> value, ran |-> <<>>, effects |-> <<>>]

\* The call made these steps on the filesystem before it ended as outcome.
After(effects, outcome) == [outcome EXCEPT !.effects = effects]

\* The call of capability fn that ended as outcome.
Call(fn, outcome) == [outcome EXCEPT !.ran = <<fn>> \o @]

\* str() of a non-negative int, digit by digit.
Digit(d) ==
    CASE d = 0 -> "0" [] d = 1 -> "1" [] d = 2 -> "2" [] d = 3 -> "3" [] d = 4 -> "4"
      [] d = 5 -> "5" [] d = 6 -> "6" [] d = 7 -> "7" [] d = 8 -> "8" [] d = 9 -> "9"

RECURSIVE StrInt(_)
StrInt(n) == IF n < 10 THEN <<Digit(n)>> ELSE StrInt(n \div 10) \o <<Digit(n % 10)>>

\* filesystem.search_code: re.compile raises on a malformed pattern, outside
\* any try of the capability.
search_code(pattern) ==
    IF pattern \in BadPatterns
    THEN Raise(ReError(pattern))
    ELSE Return([matches |-> <<"app.py:1">>])

\* A gate that treats a rejection as an error.
ask_developer_for_approval_raising(phase_name) ==
    IF console_input(phase_name) = EndOfFile
    THEN Raise(EOFErrorText)
    ELSE IF ~Confirm_ask(phase_name)
    THEN Raise("Rejected by developer")
    ELSE Return([approved |-> TRUE, feedback |-> None])

\* workflow.ask_developer_for_approval: feedback is asked for only on rejection.
\* The prompt reads a line with input(); EOFError leaves the function.
ask_developer_for_approval(phase_name) ==
    IF console_input(phase_name) = EndOfFile
    THEN Raise(EOFErrorText)
    ELSE LET approved == Confirm_ask(phase_name)
             feedback == IF ~approved THEN Prompt_ask ELSE None
         IN Return([approved |-> approved, feedback |-> feedback])

\* A write_file that the dispatcher lets through only after a call of the
\* approval gate in the same row of calls returned approved=true.
write_file_gated(disk, file_path, content, backup) ==
    LET at == Location(file_path)
        backup_path == with_backup_suffix(file_path)
    IN IF ~\E i \in DOMAIN called :
              /\ called[i].args.name = "ask_developer_for_approval"
              /\ "approved" \in DOMAIN called[i].out.result
              /\ called[i].out.result.approved
       THEN Return([success |-> FALSE, backup_path |-> NoText,
                    error |-> <<"not approved">>])
       ELSE IF at \in DOMAIN disk /\ disk[at].kind = "dir"
       THEN Return([success |-> FALSE, backup_path |-> NoText,
                    error |-> IsADirectoryText(file_path)])
       ELSE IF backup /\ at \in DOMAIN disk
       THEN After(<<Copied(at, Location(backup_path)), Written(at, content)>>,
                  Return([success |-> TRUE, backup_path |-> StrPath(backup_path),
                          error |-> NoText]))
       ELSE After(<<Written(at, content)>>,
                  Return([success |-> TRUE, backup_path |-> NoText, error |-> NoText]))

\* A write_file that writes first and copies the written file afterwards.
write_file_backup_last(disk, file_path, content, backup) ==
    LET at == Location(file_path)
        backup_path == with_backup_suffix(file_path)
    IN IF at \in DOMAIN disk /\ disk[at].kind = "dir"
       THEN Return([success |-> FALSE, backup_path |-> NoText,
                    error |-> IsADirectoryText(file_path)])
       ELSE IF backup /\ at \in DOMAIN disk
       THEN After(<<Written(at, content), Copied(at, Location(backup_path))>>,
                  Return([success |-> TRUE, backup_path |-> StrPath(backup_path),
                          error |-> NoText]))
       ELSE After(<<Written(at, content)>>,
                  Return([success |-> TRUE, backup_path |-> NoText, error |-> NoText]))

\* filesystem.write_file: if backup and file_path.exists(), shutil.copy2 to
\* the backup path; then open(file_path, "w") and write.  On a directory
\* copy2, or open, raises IsADirectoryError inside the try and the failure
\* dict is returned.  (Files are writable and the directories above them
\* exist or are made by mkdir.)
write_file(disk, file_path, content, backup) ==
    LET at == Location(file_path)
        backup_path == with_backup_suffix(file_path)
    IN IF at \in DOMAIN disk /\ disk[at].kind = "dir"
       THEN Return([success |-> FALSE, backup_path |-> NoText,
                    error |-> IsADirectoryText(file_path)])
       ELSE IF backup /\ at \in DOMAIN disk
       THEN After(<<Copied(at, Location(backup_path)), Written(at, content)>>,
                  Return([success |-> TRUE, backup_path |-> StrPath(backup_path),
                          error |-> NoText]))
       ELSE After(<<Written(at, content)>>,
                  Return([success |-> TRUE, backup_path |-> NoText, error |-> NoText]))

\* filesystem.read_file without max_lines: open(file_path) and f.read(); an
\* exception of open gives the dict with content None and the error.
read_file(disk, file_path) ==
    LET at == Location(file_path)
    IN IF at \notin DOMAIN disk
       THEN Return([content |-> NoText, error |-> FileNotFoundText(file_path)])
       ELSE IF disk[at].kind = "dir"
       THEN Return([content |-> NoText, error |-> IsADirectoryText(file_path)])
       ELSE After(<<Read(at)>>,
                  Return([content |-> <<disk[at].content>>, truncated |-> FALSE,
                          error |-> NoText]))

\* execution.run_command: one subprocess.run inside the try.  It returns the
\* dict of the finished process, or, on subprocess.TimeoutExpired, the dict
\* with exit_code -1 and the timeout message.
run_command(cmd, timeout) ==
    Call("subprocess.run",
         IF Duration(cmd) > timeout
         THEN Return([stdout |-> "", stderr |-> "", exit_code |-> -1,
                      success |-> FALSE,
                      error |-> <<"Command timed out after ">> \o StrInt(timeout)
                                   \o <<" seconds">>])
         ELSE Return([stdout |-> "", stderr |-> "", exit_code |-> returncode(cmd),
                      success |-> returncode(cmd) = 0, error |-> NoText]))

\* The first key of RequiredKeys the input lacks (tool_input[key] raises KeyError).
MissingKey(tool_name, tool_input) ==
    LET keys == RequiredKeys(tool_name)
        missing == {i \in 1..Len(keys) : keys[i] \notin DOMAIN tool_input}
    IN IF missing = {} THEN None
       ELSE keys[CHOOSE i \in missing : \A j \in missing : i <= j]

\* The display call that follows a capability inside the try: the result is
\* returned if the message prints, and MarkupError is raised if it does not.
ThenDisplay(outcome, parts) ==
    IF outcome.raises \/ Renders(parts)
    THEN outcome
    ELSE [Raise(MarkupErrorText) EXCEPT !.ran = outcome.ran,
                                        !.effects = outcome.effects]

\* What the run_command branch prints: display_success of the command, or
\* display_error of the command with the error of the result as details.
CommandReport(cmd, result) ==
    IF result.success
    THEN <<"Command completed: ", cmd>>
    ELSE <<"Command failed: ", cmd>> \o result.error

\* What the write_file branch prints, one print after the other:
\* display_success of the path given and display_info of the backup path, or
\* display_error of the path given with the error as details.
WriteReport(file_path, result) ==
    IF result.success
    THEN <<"Wrote ", file_path>>
    ELSE <<"Failed to write ", file_path>> \o result.error

BackupReport(result) ==
    IF result.success /\ result.backup_path # NoText
    THEN <<"Backup created: ">> \o result.backup_path
    ELSE <<>>

\* What the read_file branch prints: display_error when the result has an
\* error, nothing otherwise.
ReadReport(file_path, result) ==
    IF result.error # NoText
    THEN <<"Failed to read ", file_path>> \o result.error
    ELSE <<>>

\* An else branch that raises.
UnknownTool_raising(tool_name) == Raise("Unknown tool")

\* The else branch of execute_tool: return {"error": f"Unknown tool: {tool_name}"}
UnknownTool(tool_name) == Return([error |-> <<"Unknown tool: ", tool_name>>])

\* The body of the try of execute_tool: the branch of the tool name.
Dispatch(tool_name, tool_input) ==
    IF tool_name \notin ToolCatalog
    THEN UnknownTool(tool_name)
    ELSE IF MissingKey(tool_name, tool_input) # None
    THEN Raise(MissingKey(tool_name, tool_input))
    ELSE CASE tool_name = "search_code" ->
                  Call(tool_name, search_code(tool_input.pattern))
           [] tool_name = "ask_developer_for_approval" ->
                  Call(tool_name, ask_developer_for_approval(tool_input.phase_name))
           [] tool_name = "read_file" ->
                  LET file_path == Join(ProjectRoot, Path(tool_input.file_path))
                      outcome == Call(tool_name, read_file(fs, file_path))
                  IN ThenDisplay(outcome, ReadReport(tool_input.file_path, outcome.value))
           [] tool_name = "write_file" ->
                  LET file_path == Join(ProjectRoot, Path(tool_input.file_path))
                      backup == IF "backup" \in DOMAIN tool_input
                                THEN tool_input.backup ELSE TRUE
                  IN CHOOSE shown \in
                         {ThenDisplay(outcome,
                                      WriteReport(tool_input.file_path, outcome.value)
                                          \o BackupReport(outcome.value)) :
                            outcome \in {Call(tool_name,
                                              write_file(fs, file_path,
                                                         tool_input.content, backup))}} :
                         TRUE
           [] tool_name = "run_command" ->
                  LET timeout == IF "timeout" \in DOMAIN tool_input
                                 THEN tool_input.timeout ELSE DefaultTimeout
                      outcome == Call(tool_name, run_command(tool_input.cmd, timeout))
                  IN ThenDisplay(outcome, CommandReport(tool_input.cmd, outcome.value))
           [] OTHER -> Call(tool_name, Return([tool |-> tool_name, error |-> NoText]))

\* What execute_tool returns for the outcome d of its try body: the result, or
\* for an exception the except Exception that builds error_msg,
\* prints it with display.display_error and returns the failure payload.  The
\* print is inside the handler: when it raises, the exception leaves
\* execute_tool (escaped, with its text in exc).
except_Exception(tool_name, d) ==
    LET error_msg == <<"Error executing ", tool_name, ": ", d.exc>>
    IN IF ~d.raises
       THEN [escaped |-> FALSE, exc |-> "", result |-> d.value, ran |-> d.ran,
             effects |-> d.effects]
       ELSE IF Renders(error_msg)
       THEN [escaped |-> FALSE, exc |-> "", result |-> [error |-> error_msg],
             ran |-> d.ran, effects |-> d.effects]
       ELSE [escaped |-> TRUE, exc |-> MarkupErrorText, result |-> [error |-> NoText],
             ran |-> d.ran, effects |-> d.effects]

\* execute_tool(tool_name, tool_input, project_path): the try body, run once,
\* and what comes of its outcome.
execute_tool(tool_name, tool_input) ==
    CHOOSE result \in {except_Exception(tool_name, d) :
                          d \in {Dispatch(tool_name, tool_input)}} : TRUE

\* str(result), the content of a tool_result block.
Str(result) == [str |-> result]

\* ------------------------------------------------------------------- loop
UserText(text) == [role |-> "user", content |-> <<[type |-> "text", text |-> text]>>]

ContinueMessage == UserText("Please continue from where you left off.")

\* A dispatcher that hands the call to a worker and moves on to the next block.
AfterCall_async(idx) == [pc |-> "for_blocks", blockIdx |-> idx + 1]

\* The pc and loop index once execute_tool has been called: the call blocks,
\* the for loop stands still until it returns.
AfterCall(idx) == [pc |-> "executing", blockIdx |-> idx]

\* The cap off by one.
while_condition_inclusive(it) == it <= max_iterations

\* The condition of the while loop.
while_condition(it) == it < max_iterations

\* The except clauses of the loop (loop.py:580-587): progress.stop(), the error
\* is printed with display.display_error, break.  When the print raises, the
\* exception leaves run_planning_agent.
OnException(kind, text, shown) ==
    IF Renders(<<IF kind = "api_error" THEN "API Error: " ELSE "Unexpected error: ",
                 text>>)
    THEN [pc |-> "after_loop", displayed |-> shown \cup {Error(kind)}]
    ELSE [pc |-> "raised", displayed |-> shown]

\* The texts of the text blocks of a reply, which end_turn prints.
Texts(content) ==
    LET blocks == SelectSeq(content, LAMBDA b : b.type = "text")
    IN [i \in 1..Len(blocks) |-> blocks[i].text]

\* The branches with a truncated reply halting the loop instead of continuing.
OnStopReason_truncation_halts(reply, shown) ==
    CASE reply.stop_reason = "end_turn" ->
             IF Renders(Texts(reply.content))
             THEN [append |-> <<>>, pc |-> "after_loop",
                   displayed |-> shown \cup {Success("Task completed!")}]
             ELSE [append |-> <<>>] @@ OnException("unexpected_error", MarkupErrorText, shown)
      [] reply.stop_reason = "tool_use" ->
             [append |-> <<>>, pc |-> "for_blocks", displayed |-> shown]
      [] reply.stop_reason = "max_tokens" ->
             [append |-> <<>>, pc |-> "after_loop",
              displayed |-> shown \cup {Warning("Response truncated")}]
      [] OTHER -> [append |-> <<>>, pc |-> "loop", displayed |-> shown]

\* The branch taken on the stop reason of a reply: the messages appended after
\* the assistant message, what has been displayed, and where control goes.
\* end_turn prints the text blocks of the reply before it reports success;
\* a print that raises is caught by the except Exception of the loop.
OnStopReason(reply, shown) ==
    CASE reply.stop_reason = "end_turn" ->
             IF Renders(Texts(reply.content))
             THEN [append |-> <<>>, pc |-> "after_loop",
                   displayed |-> shown \cup {Success("Task completed!")}]
             ELSE [append |-> <<>>] @@ OnException("unexpected_error", MarkupErrorText, shown)
      [] reply.stop_reason = "tool_use" ->
             [append |-> <<>>, pc |-> "for_blocks", displayed |-> shown]
      [] reply.stop_reason = "max_tokens" ->
             [append |-> <<ContinueMessage>>, pc |-> "loop",
              displayed |-> shown \cup {Warning("Response truncated")}]
      [] OTHER -> [append |-> <<>>, pc |-> "loop", displayed |-> shown]

\* The tool_result block of a call.
ToolResult(block, result) ==
    [type |-> "tool_result", tool_use_id |-> block.id, content |-> Str(result)]

\* tool_results.append(...)
Collect(results, entry) == Append(results, entry)

\* The cap reported through display_error.
MaxIterationsReport_as_error == Error("Reached maximum iterations")

\* display.display_warning(f"Reached maximum iterations ({max_iterations})")
MaxIterationsReport == Warning("Reached maximum iterations")

\* ------------------------------------------------------------- plan model
\* Optional[datetime]: None is the empty tuple, a datetime the tuple of its
\* second.
NoTime == <<>>

DateTime(t) == <<t>>

\* PhaseStatus
PhaseStatus == {"pending", "in_progress", "completed", "failed", "skipped"}

\* The phase ids the callers use: those of the authored phases, in insertion
\* order, and one id that names no phase.
PhaseIds == <<"p1", "p2">>

UnknownPhaseId == "ghost"

\* FileChange(path, action, description)
FileChange(path) == [path |-> path, action |-> "modify", description |-> "d"]

\* TestStrategy() with its defaults
TestStrategy == [test_files |-> <<>>, commands |-> <<>>, description |-> ""]

\* Phase(id=..., name=..., objective=..., status=..., dependencies=...,
\* file_changes=...), at second t, with the fields that go with the status
\* (the start time of a started phase, the completion time of a completed
\* one, the error of a failed one) and the defaults of the other fields.
Phase(id, status, dependencies, file_changes, t) ==
    [id |-> id, name |-> "n", objective |-> "o", status |-> status,
     dependencies |-> dependencies, file_changes |-> file_changes,
     key_changes |-> <<>>, test_strategy |-> TestStrategy,
     complexity |-> "medium",
     started_at |-> IF status \in {"in_progress", "completed"}
                    THEN DateTime(t) ELSE NoTime,
     completed_at |-> IF status = "completed" THEN DateTime(t) ELSE NoTime,
     error_message |-> IF status = "failed" THEN <<"earlier error">> ELSE NoText]

\* ImplementationPlan(id=..., task_description=..., project_context=...,
\* phases=...) created at second t.
ImplementationPlan(phases, t) ==
    [id |-> "plan1", task_description |-> "task", created_at |-> DateTime(t),
     updated_at |-> DateTime(t),
     project_context |-> [path |-> "/proj", language |-> None, framework |-> None,
                          tech_stack |-> <<>>, architecture_notes |-> ""],
     phases |-> phases, approved |-> FALSE, approved_at |-> NoTime,
     approval_feedback |-> NoText, overall_complexity |-> "medium"]

\* The dependency lists of the i-th phase of a plan: none, an id that names
\* no phase, the earlier phase, or both.
DependencyLists(i) ==
    IF i = 1 THEN {<<>>, <<UnknownPhaseId>>}
    ELSE {<<>>, <<PhaseIds[i - 1]>>, <<PhaseIds[i - 1], UnknownPhaseId>>}

\* The phases a plan is constructed with (by its author, or by load_plan when
\* a run is resumed): the i-th has the i-th id of PhaseIds and any status;
\* the first phase changes a file, the others none.
AuthoredPhase(i) ==
    { Phase(PhaseIds[i], status, dependencies,
            IF i = 1 THEN <<FileChange("app.py")>> ELSE <<>>, 0) :
        status \in PhaseStatus, dependencies \in DependencyLists(i) }

AuthoredPlans ==
    { ImplementationPlan(phases, 0) :
        phases \in {<<>>} \cup {<<a>> : a \in AuthoredPhase(1)}
                   \cup {<<a, b>> : a \in AuthoredPhase(1), b \in AuthoredPhase(2)} }

\* get_phase: the position of the first phase with the id, 0 for None.
get_phase(self, phase_id) ==
    LET found == {i \in DOMAIN self.phases : self.phases[i].id = phase_id}
    IN IF found = {} THEN 0 ELSE CHOOSE i \in found : \A j \in found : i <= j

\* all(dep in completed_ids for dep in phase.dependencies), with the test on
\* the dependencies left out.
deps_met_unchecked(phase, completed_ids) == TRUE

\* all(dep in completed_ids for dep in phase.dependencies)
deps_met(phase, completed_ids) ==
    \A k \in DOMAIN phase.dependencies : phase.dependencies[k] \in completed_ids

\* get_pending_phases: the for loop over self.phases, appending to pending.
RECURSIVE pending_loop(_, _, _)
pending_loop(phases, completed_ids, pending) ==
    IF phases = <<>> THEN pending
    ELSE LET phase == Head(phases)
         IN pending_loop(Tail(phases), completed_ids,
                IF phase.status = "pending" /\ deps_met(phase, completed_ids)
                THEN Append(pending, phase) ELSE pending)

get_pending_phases(self) ==
    LET completed_ids == {self.phases[i].id : i \in
                            {j \in DOMAIN self.phases : self.phases[j].status = "completed"}}
    IN pending_loop(self.phases, completed_ids, <<>>)

\* Optional[Phase]: None is the empty tuple, a phase the tuple of it.
NoPhase == <<>>

\* get_current_phase: the for loop returns at the first phase in progress.
RECURSIVE current_loop(_)
current_loop(phases) ==
    IF phases = <<>> THEN NoPhase
    ELSE IF Head(phases).status = "in_progress" THEN <<Head(phases)>>
    ELSE current_loop(Tail(phases))

\* A query that returns the last phase in progress.
get_current_phase_last(self) ==
    LET found == {i \in DOMAIN self.phases : self.phases[i].status = "in_progress"}
    IN IF found = {} THEN NoPhase
       ELSE <<self.phases[CHOOSE i \in found : \A j \in found : j <= i]>>

get_current_phase(self) == current_loop(self.phases)

\* mark_phase_failed storing a fixed text.
failed_fields_generic(phase, error) ==
    [phase EXCEPT !.status = "failed", !.error_message = <<"phase failed">>]

\* mark_phase_failed resetting the start of the phase as well.
failed_fields_clearing(phase, error) ==
    [phase EXCEPT !.status = "failed", !.error_message = error, !.started_at = NoTime]

\* The fields mark_phase_failed sets on the phase.
failed_fields(phase, error) ==
    [phase EXCEPT !.status = "failed", !.error_message = error]

\* A setter that closes the phase as skipped.
mark_phase_complete_as_skipped(self, phase_id, t) ==
    LET i == get_phase(self, phase_id)
    IN IF i = 0 THEN self
       ELSE [self EXCEPT !.phases[i].status = "skipped",
                         !.phases[i].completed_at = DateTime(t),
                         !.updated_at = DateTime(t)]

\* mark_phase_complete(phase_id) at second t.
mark_phase_complete(self, phase_id, t) ==
    LET i == get_phase(self, phase_id)
    IN IF i = 0 THEN self
       ELSE [self EXCEPT !.phases[i].status = "completed",
                         !.phases[i].completed_at = DateTime(t),
                         !.updated_at = DateTime(t)]

\* mark_phase_failed(phase_id, error) at second t.
mark_phase_failed(self, phase_id, error, t) ==
    LET i == get_phase(self, phase_id)
    IN IF i = 0 THEN self
       ELSE [self EXCEPT !.phases[i] = failed_fields(@, error),
                         !.updated_at = DateTime(t)]

\* A setter that starts the phase without recording when.
start_phase_unstamped(self, phase_id, t) ==
    LET i == get_phase(self, phase_id)
    IN IF i = 0 THEN self
       ELSE [self EXCEPT !.phases[i].status = "in_progress",
                         !.updated_at = DateTime(t)]

\* A setter that stamps the plan before it looks the phase up.
start_phase_touching(self, phase_id, t) ==
    LET i == get_phase(self, phase_id)
    IN IF i = 0 THEN [self EXCEPT !.updated_at = DateTime(t)]
       ELSE [self EXCEPT !.phases[i].status = "in_progress",
                         !.phases[i].started_at = DateTime(t),
                         !.updated_at = DateTime(t)]

\* start_phase(phase_id) at second t.
start_phase(self, phase_id, t) ==
    LET i == get_phase(self, phase_id)
    IN IF i = 0 THEN self
       ELSE [self EXCEPT !.phases[i].status = "in_progress",
                         !.phases[i].started_at = DateTime(t),
                         !.updated_at = DateTime(t)]

\* ------------------------------------------------------- update_plan_step
\* The attributes of a Phase that are not fields: its methods.
PhaseMethods == {"model_dump"}

\* hasattr(phase, key)
hasattr(phase, key) == key \in DOMAIN phase \/ key \in PhaseMethods

\* str() of the ValueError pydantic raises on setattr of a name that is no field.
NoFieldText(key) == <<"\"Phase\" object has no field \"", key, "\"">>

\* setattr(phase, key, value) on a field (the model does not validate
\* assignments).
setattr(phase, key, value) == [f \in DOMAIN phase |-> IF f = key THEN value ELSE phase[f]]

\* The for loop of update_plan_step from change n on: the phase it leaves and
\* the text of the exception that ended it, if one did.
RECURSIVE apply_changes(_, _, _)
apply_changes(phase, changes, n) ==
    IF n > Len(changes) THEN [phase |-> phase, exc |-> NoText]
    ELSE LET key == changes[n][1]
             value == changes[n][2]
         IN IF ~hasattr(phase, key) THEN apply_changes(phase, changes, n + 1)
            ELSE IF key \in PhaseMethods THEN [phase |-> phase, exc |-> NoFieldText(key)]
            ELSE apply_changes(setattr(phase, key, value), changes, n + 1)

\* A plan whose changed phase is moved to the end of the list.
put_phase_last(phases, i, phase) ==
    SelectSeq([j \in DOMAIN phases |-> IF j = i THEN phase ELSE phases[j]],
              LAMBDA ph : ph # phase) \o <<phase>>

\* The phase object is changed where it is, in the list of the plan.
put_phase(phases, i, phase) == [phases EXCEPT ![i] = phase]

\* workflow.update_plan_step(plan, step_id, changes) at second t: the plan it
\* leaves and the dict it returns.
update_plan_step(self, step_id, changes, t) ==
    LET i == get_phase(self, step_id)
        changed == apply_changes(self.phases[i], changes, 1)
    IN IF i = 0
       THEN [plan |-> self,
             result |-> [success |-> FALSE, error |-> <<"Phase ", step_id, " not found">>]]
       ELSE IF changed.exc # NoText
       THEN [plan |-> [self EXCEPT !.phases = put_phase(@, i, changed.phase)],
             result |-> [success |-> FALSE, error |-> changed.exc]]
       ELSE [plan |-> [self EXCEPT !.phases = put_phase(@, i, changed.phase),
                                   !.updated_at = DateTime(t)],
             result |-> [success |-> TRUE, error |-> NoText]]

\* ------------------------------------------------------------ persistence
\* Optional[ImplementationPlan]: None is the empty tuple.
NoPlan == <<>>

\* null in a dumped document.
JsonNull == <<>>

\* datetime.isoformat(): the text of the datetime, to its full resolution.
IsoFormat(dt) == <<"iso", dt[1]>>

\* datetime.fromisoformat(text)
FromIsoFormat(text) == DateTime(text[2])

\* A datetime field in model_dump(mode="json"): null for None.
DumpTime(dt) == IF dt = NoTime THEN JsonNull ELSE IsoFormat(dt)

\* plan.model_dump(mode="json")
model_dump(self) ==
    [self EXCEPT !.created_at = DumpTime(@), !.updated_at = DumpTime(@),
                 !.approved_at = DumpTime(@),
                 !.phases = [i \in DOMAIN @ |->
                               [@[i] EXCEPT !.started_at = DumpTime(@),
                                            !.completed_at = DumpTime(@)]]]

\* The values save_plan is called with for format; anything but "yaml" is
\* written as JSON.
Formats == {"json", "yaml"}

\* The file names the callers of save_plan and load_plan use: directory and
\* stem, then suffix.
PlanFiles == {<<"plan", ".json">>, <<"plan", ".yaml">>}

\* Path.suffix.lower()
Suffix(filename) == filename[Len(filename)]

\* What save_plan writes: yaml.dump(plan_dict, ...) in block style, or
\* json.dump(plan_dict, ...).  saved is history: the plan the call was given.
save_plan(self, format) ==
    [syntax |-> IF format = "yaml" THEN "yaml" ELSE "json", doc |-> model_dump(self),
     saved |-> self]

\* The parser load_plan picks from the suffix of the file name, applied to the
\* text of the file: yaml.safe_load reads block YAML and, JSON being YAML flow
\* syntax, JSON; json.load reads JSON only and raises on anything else.
Parses(suffix, text) ==
    IF suffix \in {".yaml", ".yml"} THEN TRUE ELSE text.syntax = "json"

\* The conversion of a datetime key in load_plan: a key that is present,
\* truthy and a string goes through datetime.fromisoformat; the model
\* validation leaves None as None.
LoadTime(value) == IF value = JsonNull THEN NoTime ELSE FromIsoFormat(value)

\* ImplementationPlan(**plan_dict) after the datetime conversions.
FromDict(plan_dict) ==
    [plan_dict EXCEPT !.created_at = LoadTime(@), !.updated_at = LoadTime(@),
                      !.approved_at = LoadTime(@),
                      !.phases = [i \in DOMAIN @ |->
                                    [@[i] EXCEPT !.started_at = LoadTime(@),
                                                 !.completed_at = LoadTime(@)]]]

\* datetime.fromisoformat accepts the text.
IsIsoFormat(value) == value = JsonNull \/ value[1] = "iso"

\* The datetime keys load_plan converts are all convertible.
WellDated(plan_dict) ==
    /\ IsIsoFormat(plan_dict.created_at)
    /\ IsIsoFormat(plan_dict.updated_at)
    /\ IsIsoFormat(plan_dict.approved_at)
    /\ \A i \in DOMAIN plan_dict.phases :
           /\ IsIsoFormat(plan_dict.phases[i].started_at)
           /\ IsIsoFormat(plan_dict.phases[i].completed_at)

\* load_plan(filename) on the files of the disk, when it returns: None when
\* the file is missing, does not parse or holds a date that is no date
\* (except Exception: ... return None).
load_plan(disk, filename) ==
    IF filename \notin DOMAIN disk THEN NoPlan
    ELSE IF ~Parses(Suffix(filename), disk[filename]) THEN NoPlan
    ELSE IF ~WellDated(disk[filename].doc) THEN NoPlan
    ELSE <<FromDict(disk[filename].doc)>>

\* str(e) of the exception load_plan catches: FileNotFoundError quotes the
\* file name, json.load gives the position, datetime.fromisoformat quotes the
\* text it was given.
LoadErrorText(disk, filename) ==
    IF filename \notin DOMAIN disk
    THEN <<"[Errno 2] No such file or directory: '">> \o filename \o <<"'">>
    ELSE IF ~Parses(Suffix(filename), disk[filename])
    THEN <<"Expecting value: line 1 column 1 (char 0)">>
    ELSE <<"Invalid isoformat string: '", disk[filename].doc.created_at[2], "'">>

\* load_plan with its handler: except Exception prints the error with
\* console.print, markup on, and returns None; when the print raises, the
\* exception leaves load_plan.
LoadPlanOutcome(disk, filename) ==
    LET loaded == load_plan(disk, filename)
    IN IF loaded # NoPlan THEN Return(loaded)
       ELSE IF Renders(<<"Error loading plan: ">> \o LoadErrorText(disk, filename))
       THEN Return(NoPlan)
       ELSE Raise(MarkupErrorText)

\* save_plan with its handler: open() raises on a directory, and except
\* Exception returns the failure dict.
SavePlanOutcome(disk, filename) ==
    IF filename \in DOMAIN disk /\ disk[filename].syntax = "dir"
    THEN Return([success |-> FALSE, path |-> NoText,
                 error |-> <<"[Errno 21] Is a directory: '">> \o filename \o <<"'">>])
    ELSE Return([success |-> TRUE, path |-> filename, error |-> NoText])

\* resume_plan(plan_path, project_path, model): display_info of the path,
\* load_plan, and display_error and return when there is no plan; with a plan
\* it displays the plan and says that resuming is pending.  It makes no
\* request and calls no tool.
resume_plan(disk, plan_path) ==
    IF ~Renders(<<"Loading plan from ">> \o plan_path)
    THEN Raise(MarkupErrorText)
    ELSE LET loaded == Call("display_info", Call("load_plan", LoadPlanOutcome(disk, plan_path)))
         IN IF loaded.raises THEN loaded
            ELSE IF loaded.value = NoPlan
            THEN [Return(NoPlan) EXCEPT !.ran = loaded.ran \o <<"display_error">>]
            ELSE [Return(NoPlan) EXCEPT
                     !.ran = loaded.ran \o <<"display_plan", "display_progress",
                                              "display_info">>]

\* open(filename, "w") and the dump: the file is created or replaced.
WriteFile(disk, filename, text) ==
    [n \in DOMAIN disk \cup {filename} |-> IF n = filename THEN text ELSE disk[n]]

\* Resolution of the clock of the model: ticks in one second.
TicksPerSecond == 2

\* datetime.now().strftime("%Y%m%d_%H%M%S"): the time cut to whole seconds.
strftime(t) == t \div TicksPerSecond

\* plancode_dir / f"plan_{plan.id}_{timestamp}.json"
checkpoint_name(self, t) == <<"plan_", self.id, "_", strftime(t), ".json">>

\* The last call on the plan: its name and arguments, the plan before it and
\* what it returned (None as the empty tuple).
Op(op, arg, error, before, ret) ==
    [op |-> op, arg |-> arg, error |-> error, before |-> before, ret |-> ret]

\* run_planning_agent builds no ImplementationPlan and calls none of its
\* methods: the loop has no plan and writes no plan file.
NoPlanHeld ==
    /\ plan = NoPlan
    /\ authored = NoPlan
    /\ now = 0
    /\ files = <<>>
    /\ lastOp = Op("none", "", NoText, NoPlan, <<>>)
    /\ unsaved = 0
    /\ checkpoints = 0
    /\ planCalls = 0

Init ==
    /\ script \in Replies
    /\ pc = "loop"
    /\ iteration = 0
    /\ messages = <<UserText("task")>>
    /\ response = NoResponse
    /\ blockIdx = 0
    /\ tool_results = <<>>
    /\ inflight = 0
    /\ running = <<>>
    /\ displayed = {}
    /\ requests = 0
    /\ executed = <<>>
    /\ NoPlanHeld
    /\ called = <<>>
    /\ fs = WrittenProject

\* while iteration < max_iterations: iteration += 1; client.messages.create(...)
Request ==
    /\ pc = "loop"
    /\ while_condition(iteration)
    /\ iteration' = iteration + 1
    /\ inflight' = inflight + 1
    /\ requests' = requests + 1
    /\ pc' = "inflight"
    /\ UNCHANGED <<script, messages, response, blockIdx, tool_results, running,
                   displayed, executed>>
    /\ UNCHANGED <<planVars, toolVars>>

\* The while condition fails: control leaves the loop.
LoopExit ==
    /\ pc = "loop"
    /\ ~while_condition(iteration)
    /\ pc' = "after_loop"
    /\ UNCHANGED <<script, iteration, messages, response, blockIdx, tool_results,
                   inflight, running, displayed, requests, executed>>
    /\ UNCHANGED <<planVars, toolVars>>

\* client.messages.create returns: the reply is appended and its stop reason
\* decides the branch.
Reply ==
    /\ pc = "inflight"
    /\ \E r \in {script} \cup FinalAnswers :
         LET reply == WithIds(r, iteration)
             branch == OnStopReason(reply, displayed)
         IN /\ response' = reply
            /\ messages' = Append(messages, [role |-> "assistant",
                                             content |-> reply.content])
                           \o branch.append
            /\ displayed' = branch.displayed
            /\ pc' = branch.pc
    /\ inflight' = inflight - 1
    /\ blockIdx' = 1
    /\ tool_results' = <<>>
    /\ UNCHANGED <<script, iteration, running, requests, executed>>
    /\ UNCHANGED <<planVars, toolVars>>

\* client.messages.create raises: except anthropic.APIError / except Exception.
RequestFails ==
    /\ pc = "inflight"
    /\ \E kind \in RequestFailures :
         LET handled == OnException(kind, RequestFailureText, displayed)
         IN /\ displayed' = handled.displayed
            /\ pc' = handled.pc
    /\ inflight' = inflight - 1
    /\ UNCHANGED <<script, iteration, messages, response, blockIdx, tool_results,
                   running, requests, executed>>
    /\ UNCHANGED <<planVars, toolVars>>

\* for block in response.content: a block that is not a tool_use is passed over.
SkipBlock ==
    /\ pc = "for_blocks"
    /\ blockIdx <= Len(response.content)
    /\ response.content[blockIdx].type # "tool_use"
    /\ blockIdx' = blockIdx + 1
    /\ UNCHANGED <<script, pc, iteration, messages, response, tool_results,
                   inflight, running, displayed, requests, executed>>
    /\ UNCHANGED <<planVars, toolVars>>

\* execute_tool(block.name, block.input, project_path) is called.
StartTool ==
    /\ pc = "for_blocks"
    /\ blockIdx <= Len(response.content)
    /\ response.content[blockIdx].type = "tool_use"
    /\ running' = Append(running, response.content[blockIdx].id)
    /\ pc' = AfterCall(blockIdx).pc
    /\ blockIdx' = AfterCall(blockIdx).blockIdx
    /\ UNCHANGED <<script, iteration, messages, response, tool_results, inflight,
                   displayed, requests, executed>>
    /\ UNCHANGED <<planVars, toolVars>>

\* execute_tool returns, or an exception escapes it and the except Exception of
\* the loop handles it.
ToolReturns ==
    /\ pc = "executing"
    /\ \E block \in {response.content[blockIdx]} :
       \E out \in {execute_tool(block.name, block.input)} :
          /\ executed' = Append(executed, [id |-> block.id, name |-> block.name,
                                           input |-> block.input, out |-> out])
          /\ running' = SelectSeq(running, LAMBDA id : id # block.id)
          /\ fs' = Apply(fs, out.effects)
          /\ IF out.escaped
             THEN /\ displayed' = OnException("unexpected_error", out.exc, displayed).displayed
                  /\ pc' = OnException("unexpected_error", out.exc, displayed).pc
                  /\ UNCHANGED <<tool_results, blockIdx>>
             ELSE /\ tool_results' = Collect(tool_results, ToolResult(block, out.result))
                  /\ blockIdx' = blockIdx + 1
                  /\ pc' = "for_blocks"
                  /\ UNCHANGED displayed
    /\ UNCHANGED <<script, iteration, messages, response, inflight, requests>>
    /\ UNCHANGED <<planVars, called>>

\* The for loop is over: messages.append({"role": "user", "content": tool_results})
EndFor ==
    /\ pc = "for_blocks"
    /\ blockIdx > Len(response.content)
    /\ messages' = Append(messages, [role |-> "user", content |-> tool_results])
    /\ pc' = "loop"
    /\ UNCHANGED <<script, iteration, response, blockIdx, tool_results, inflight,
                   running, displayed, requests, executed>>
    /\ UNCHANGED <<planVars, toolVars>>

\* if iteration >= max_iterations: display_warning(...); the function returns.
AfterLoop ==
    /\ pc = "after_loop"
    /\ displayed' = IF iteration >= max_iterations
                    THEN displayed \cup {MaxIterationsReport}
                    ELSE displayed
    /\ pc' = "returned"
    /\ UNCHANGED <<script, iteration, messages, response, blockIdx, tool_results,
                   inflight, running, requests, executed>>
    /\ UNCHANGED <<planVars, toolVars>>

Next ==
    \/ Request
    \/ LoopExit
    \/ Reply
    \/ RequestFails
    \/ SkipBlock
    \/ StartTool
    \/ ToolReturns
    \/ EndFor
    \/ AfterLoop

Spec == Init /\ [][Next]_vars

\* The process is one thread that keeps running, and every service request and
\* every tool call returns.
FairSpec == Spec /\ WF_vars(Next)

\* ----------------------------------------------------- plan specification
\* The plan model and its persistence are called from outside the loop (the
\* tests, a resuming caller): the specification of the plan is the calls of
\* that interface on one plan, in any order, with run_planning_agent not
\* running.
LoopNotStarted ==
    /\ script = [stop_reason |-> "end_turn", content |-> <<TextBlock>>]
    /\ pc = "not_started"
    /\ iteration = 0
    /\ messages = <<>>
    /\ response = NoResponse
    /\ blockIdx = 0
    /\ tool_results = <<>>
    /\ inflight = 0
    /\ running = <<>>
    /\ displayed = {}
    /\ requests = 0
    /\ executed = <<>>

\* The error texts the callers of mark_phase_failed pass.
ErrorTexts == {<<"compile error">>}

PlanInit ==
    /\ LoopNotStarted
    /\ plan \in AuthoredPlans
    /\ authored = plan
    /\ now = 0
    /\ files = <<>>
    /\ lastOp = Op("none", "", NoText, plan, <<>>)
    /\ unsaved = 0
    /\ checkpoints = 0
    /\ planCalls = 0
    /\ called = <<>>
    /\ fs = WrittenProject

\* The ids a caller passes: every id of PhaseIds and the unknown one.
CallerIds == {PhaseIds[i] : i \in DOMAIN PhaseIds} \cup {UnknownPhaseId}

\* datetime.now() in a call made when the clock last read t: the same tick
\* or the next one.
ClockReading(t) == {t, t + 1}

\* A mutator of the plan was called: the plan it leaves, and the history.
Mutated(op, phase_id, error, after) ==
    /\ lastOp' = Op(op, phase_id, error, plan, <<>>)
    /\ plan' = after
    /\ unsaved' = IF after.phases # plan.phases
                  THEN (IF unsaved < 2 THEN unsaved + 1 ELSE unsaved)
                  ELSE unsaved
    /\ planCalls' = planCalls + 1
    /\ UNCHANGED <<authored, files, checkpoints, loopVars, toolVars>>

\* plan.start_phase(phase_id); a mutator is called later than every reading
\* of the clock before it.
StartPhase ==
    /\ planCalls < MaxCalls
    /\ now' = now + 1
    /\ \E phase_id \in CallerIds :
         Mutated("start_phase", phase_id, NoText, start_phase(plan, phase_id, now'))

\* plan.mark_phase_complete(phase_id)
MarkPhaseComplete ==
    /\ planCalls < MaxCalls
    /\ now' = now + 1
    /\ \E phase_id \in CallerIds :
         Mutated("mark_phase_complete", phase_id, NoText,
                 mark_phase_complete(plan, phase_id, now'))

\* plan.mark_phase_failed(phase_id, error)
MarkPhaseFailed ==
    /\ planCalls < MaxCalls
    /\ now' = now + 1
    /\ \E phase_id \in CallerIds : \E error \in ErrorTexts :
         Mutated("mark_phase_failed", phase_id, error,
                 mark_phase_failed(plan, phase_id, error, now'))

\* The changes the callers of update_plan_step pass: a field of the phase, a
\* status with a key the phase does not have, a field with the name of a
\* method, the id of the phase.
ChangeSets ==
    {<<<<"complexity", "high">>>>,
     <<<<"status", "skipped">>, <<"priority", "1">>>>,
     <<<<"name", "renamed">>, <<"model_dump", "x">>>>,
     <<<<"id", "p2">>>>}

\* update_plan_step(plan, step_id, changes)
UpdatePlanStep ==
    /\ planCalls < MaxCalls
    /\ now' = now + 1
    /\ \E step_id \in CallerIds : \E changes \in ChangeSets :
         LET out == update_plan_step(plan, step_id, changes, now')
         IN /\ lastOp' = Op("update_plan_step", step_id, NoText, plan, <<out.result>>)
            /\ plan' = out.plan
            /\ unsaved' = IF out.plan.phases # plan.phases
                          THEN (IF unsaved < 2 THEN unsaved + 1 ELSE unsaved)
                          ELSE unsaved
            /\ planCalls' = planCalls + 1
            /\ UNCHANGED <<authored, files, checkpoints, loopVars, toolVars>>

\* plan.get_pending_phases()
GetPendingPhases ==
    /\ planCalls < MaxCalls
    /\ lastOp' = Op("get_pending_phases", "", NoText, plan, get_pending_phases(plan))
    /\ planCalls' = planCalls + 1
    /\ UNCHANGED <<plan, authored, now, files, unsaved, checkpoints, loopVars, toolVars>>

\* plan.get_current_phase()
GetCurrentPhase ==
    /\ planCalls < MaxCalls
    /\ lastOp' = Op("get_current_phase", "", NoText, plan, get_current_phase(plan))
    /\ planCalls' = planCalls + 1
    /\ UNCHANGED <<plan, authored, now, files, unsaved, checkpoints, loopVars, toolVars>>

\* save_plan(plan, filename, format)
SavePlan ==
    /\ planCalls < MaxCalls
    /\ \E filename \in PlanFiles : \E format \in Formats :
         /\ files' = WriteFile(files, filename, save_plan(plan, format))
         /\ lastOp' = Op("save_plan", filename, NoText, plan, <<format>>)
    /\ planCalls' = planCalls + 1
    /\ UNCHANGED <<plan, authored, now, unsaved, checkpoints, loopVars, toolVars>>

\* load_plan(filename)
LoadPlan ==
    /\ planCalls < MaxCalls
    /\ \E filename \in PlanFiles :
         lastOp' = Op("load_plan", filename, NoText, plan, load_plan(files, filename))
    /\ planCalls' = planCalls + 1
    /\ UNCHANGED <<plan, authored, now, files, unsaved, checkpoints, loopVars, toolVars>>

\* auto_save_plan(plan, project_path): the name is made from the plan id and
\* the clock, and save_plan writes the file.
AutoSavePlan ==
    /\ planCalls < MaxCalls
    /\ \E t \in ClockReading(now) :
         LET filename == checkpoint_name(plan, t)
         IN /\ now' = t
            /\ files' = WriteFile(files, filename, save_plan(plan, "json"))
            /\ lastOp' = Op("auto_save_plan", "", NoText, plan, filename)
    /\ unsaved' = 0
    /\ checkpoints' = checkpoints + 1
    /\ planCalls' = planCalls + 1
    /\ UNCHANGED <<plan, authored, loopVars, toolVars>>

PlanNext ==
    \/ StartPhase
    \/ MarkPhaseComplete
    \/ MarkPhaseFailed
    \/ UpdatePlanStep
    \/ GetPendingPhases
    \/ GetCurrentPhase
    \/ SavePlan
    \/ LoadPlan
    \/ AutoSavePlan

PlanSpec == PlanInit /\ [][PlanNext]_vars

\* ---------------------------------------------------- tool specification
\* execute_tool and the functions of the other modules are called on their
\* own (the tests, the command line), and keep nothing from one call to the
\* next: the specification of the tools is one call on any input, with
\* run_planning_agent not running and no plan held.  called holds the call
\* and what it gave.
ToolInit ==
    /\ LoopNotStarted
    /\ NoPlanHeld
    /\ called = <<>>
    /\ fs \in Projects_fs

\* The proposals shown to the operator at the gate.
Proposals ==
    {"add health endpoint", "rewrite everything", "rename module", "drop tables"}

\* The commands and the timeouts of the run_command calls.
Commands == {"pytest", "make all", "false", "grep -rn '[/b]' docs"}

Timeouts == {60, 600}

\* Tool names outside the catalog.
UnknownTools == {"deploy", "delete_repo"}

\* The calls of the file tools: every path text, two contents, backup left
\* to its default or given.
FilePaths == {"app.py", "docs", "../notes.txt", "/etc/motd"}

FileInputs ==
    {[name |-> "read_file", input |-> [file_path |-> f]] : f \in FilePaths}
    \cup {[name |-> "write_file", input |-> [file_path |-> f, content |-> c]] :
              f \in FilePaths, c \in {"x", "y"}}
    \cup {[name |-> "write_file",
           input |-> [file_path |-> f, content |-> c, backup |-> b]] :
              f \in FilePaths, c \in {"x", "y"}, b \in BOOLEAN}

\* The calls of execute_tool: those of the replies of the service, the gate on
\* every proposal, commands with and without a timeout, names outside the
\* catalog, the file tools on every path.
ToolInputs ==
    {[name |-> c.name, input |-> c.input] : c \in {b \in Calls : b.type = "tool_use"}}
    \cup {[name |-> "ask_developer_for_approval",
           input |-> [phase_name |-> p, plan_summary |-> "s",
                      files_to_modify |-> <<"app.py">>,
                      estimated_complexity |-> "high"]] : p \in Proposals}
    \cup {[name |-> "run_command", input |-> [cmd |-> c]] : c \in Commands}
    \cup {[name |-> "run_command", input |-> [cmd |-> c, timeout |-> t]] :
              c \in Commands, t \in Timeouts}
    \cup {[name |-> n, input |-> [cmd |-> c]] : n \in UnknownTools, c \in Commands}
    \cup FileInputs

\* ------------------------------------------------------------------ auth
\* An absent file, and an unset environment variable (os.getenv gives None,
\* which is false like the empty string).
NoFile == <<>>

Unset == ""

\* len() of the text of a key.
len(text) ==
    CASE text = "" -> 0
      [] text = "short" -> 5
      [] text = "sk-ant-api03-0123" -> 17

\* Where get_api_key is called: the environment variables, the name of the
\* parent process, the key files (absent, or their stripped text), whether
\* standard input is a terminal and what is typed at the key prompt.
Environments ==
    [ANTHROPIC_API_KEY : {Unset, "sk-ant-api03-0123"},
     ANTHROPIC_API_KEY_FILE : {NoFile, <<"short">>, <<"sk-ant-api03-0123">>},
     CLAUDECODE : {Unset, "1"},
     CLAUDE_CODE_ENTRYPOINT : {Unset, "cli"},
     parent : {"bash", "claude"},
     project_key_file : {NoFile, <<"sk-ant-api03-0123">>},
     isatty : BOOLEAN,
     typed : {"", "sk-ant-api03-0123"}]

\* auth.is_running_in_claude_code
is_running_in_claude_code(env) ==
    \/ env.CLAUDECODE = "1"
    \/ env.CLAUDE_CODE_ENTRYPOINT # Unset
    \/ env.parent = "claude"

\* auth.read_api_key_from_file: the key of the file, or None.
read_api_key_from_file(file) ==
    IF file = NoFile THEN None
    ELSE IF file[1] # "" /\ len(file[1]) > 10 THEN file[1]
    ELSE None

\* auth.prompt_for_api_key
prompt_for_api_key(env, allow_interactive) ==
    IF ~allow_interactive THEN None
    ELSE IF ~env.isatty THEN None
    ELSE IF env.typed # "" /\ len(env.typed) > 10 THEN env.typed
    ELSE None

\* How get_api_key ends: it returns the pair (api_key, source) or raises
\* SystemExit(status).
Returns(api_key, source) ==
    [exits |-> FALSE, status |-> 0, api_key |-> api_key, source |-> source]

SystemExit(status) ==
    [exits |-> TRUE, status |-> status, api_key |-> None, source |-> ""]

\* auth.get_api_key: the sources in their order of priority.
get_api_key(env, allow_interactive, require_key, project_path) ==
    IF env.ANTHROPIC_API_KEY # Unset
    THEN Returns(env.ANTHROPIC_API_KEY, "ANTHROPIC_API_KEY environment variable")
    ELSE IF read_api_key_from_file(env.ANTHROPIC_API_KEY_FILE) # None
    THEN Returns(read_api_key_from_file(env.ANTHROPIC_API_KEY_FILE),
                 "ANTHROPIC_API_KEY_FILE")
    ELSE IF is_running_in_claude_code(env)
    THEN Returns(None, "Claude Code environment")
    ELSE IF project_path /\ read_api_key_from_file(env.project_key_file) # None
    THEN Returns(read_api_key_from_file(env.project_key_file), ".plancode/api_key file")
    ELSE IF allow_interactive /\ prompt_for_api_key(env, TRUE) # None
    THEN Returns(prompt_for_api_key(env, TRUE), "interactive prompt")
    ELSE IF require_key
    THEN SystemExit(1)
    ELSE Returns(None, "no key required")

\* ------------------------------------------------------------ filesystem
\* The ignore_dirs of should_ignore that the projects hold.
ignore_dirs == {"node_modules"}

File(name) == [name |-> name, is_dir |-> FALSE, items |-> {}]

Dir(name, items) == [name |-> name, is_dir |-> TRUE, items |-> items]

\* What a directory whose entries are at this level may hold: a file or none,
\* and a directory or none, which is a package or an ignored directory and
\* holds entries of the next level.
RECURSIVE Listings(_)
Listings(level) ==
    LET fileSets == {{}, {File("a.py")}}
        dirSets == IF level = MaxLevel
                THEN {{}, {Dir("pkg", {})}}
                ELSE {{}} \cup {{Dir(n, sub)} : n \in {"pkg", "node_modules"},
                                                sub \in Listings(level + 1)}
    IN {f \cup d : f \in fileSets, d \in dirSets}

\* The project directories: the root and what it holds.
Projects == {Dir("project", items) : items \in Listings(1)}

\* The order of the names of the projects.
NameRank(name) ==
    CASE name = "a.py" -> 1 [] name = "node_modules" -> 2 [] name = "pkg" -> 3
      [] OTHER -> 4

\* sorted(path.iterdir(), key=lambda p: (not p.is_dir(), p.name)): directories
\* first, then files, each by name.
RECURSIVE sorted(_)
sorted(items) ==
    IF items = {} THEN <<>>
    ELSE LET first == CHOOSE x \in items : \A y \in items :
                          \/ x = y
                          \/ x.is_dir /\ ~y.is_dir
                          \/ x.is_dir = y.is_dir /\ NameRank(x.name) < NameRank(y.name)
         IN <<first>> \o sorted(items \ {first})

\* should_ignore(path, project_path, gitignore_spec) of a directory of the
\* walk: its name is one of ignore_dirs (the directories below an ignored one
\* are never walked, and the projects have no .gitignore).
should_ignore(path) == path.is_dir /\ path.name \in ignore_dirs

\* A depth check that lets one more level through.
TooDeep_late(depth, max_depth) == depth > max_depth + 1

\* if depth > max_depth: return
TooDeep(depth, max_depth) == depth > max_depth

\* The lines and counters a walk has produced.
Walked(tree_lines, file_count, dir_count) ==
    [tree_lines |-> tree_lines, file_count |-> file_count, dir_count |-> dir_count]

\* A line of the tree: the prefix (one segment per level above the entry),
\* the branch mark and the name, which ends in / for a directory.
TreeLine(prefix, is_last, item) ==
    [prefix |-> prefix,
     mark |-> IF is_last THEN "+-- " ELSE "|-- ",
     name |-> item.name,
     slash |-> item.is_dir]

\* add_tree_line(path, prefix, depth), and its for loop from item i on: acc
\* holds tree_lines, file_count and dir_count.
RECURSIVE add_tree_line(_, _, _, _, _)
RECURSIVE for_items(_, _, _, _, _, _)
add_tree_line(path, prefix, depth, max_depth, acc) ==
    IF TooDeep(depth, max_depth) THEN acc
    ELSE IF should_ignore(path) THEN acc
    ELSE for_items(sorted(path.items), 1, prefix, depth, max_depth, acc)

for_items(items, i, prefix, depth, max_depth, acc) ==
    IF i > Len(items) THEN acc
    ELSE LET item == items[i]
             is_last == i = Len(items)
             next_prefix == IF is_last THEN "    " ELSE "|   "
             line == TreeLine(prefix, is_last, item)
             listed ==
                 IF ~item.is_dir
                 THEN Walked(Append(acc.tree_lines, line), acc.file_count + 1,
                             acc.dir_count)
                 ELSE add_tree_line(item, Append(prefix, next_prefix), depth + 1,
                                    max_depth,
                                    Walked(Append(acc.tree_lines, line),
                                           acc.file_count, acc.dir_count + 1))
         IN for_items(items, i + 1, prefix, depth, max_depth, listed)

\* filesystem.list_project_structure: the root line, the walk from depth 1,
\* and the dict it returns (languages counts the .py files as Python).
list_project_structure(project_path, max_depth) ==
    LET root == [prefix |-> <<>>, mark |-> "", name |-> project_path.name,
                 slash |-> TRUE]
        walk == add_tree_line(project_path, <<>>, 1, max_depth,
                              Walked(<<root>>, 0, 0))
    IN [tree |-> walk.tree_lines,
        file_count |-> walk.file_count,
        directory_count |-> walk.dir_count,
        languages |-> IF walk.file_count > 0
                      THEN <<[language |-> "Python", count |-> walk.file_count]>>
                      ELSE <<>>,
        max_depth |-> max_depth]

\* One call of a function outside the loop: the log entry.
Called(fn, args, out) == [fn |-> fn, args |-> args, out |-> out]

\* execute_tool(tool_name, tool_input, project_path).
ExecuteTool ==
    /\ called = <<>>
    /\ \E call \in ToolInputs :
        /\ called' = <<Called("execute_tool", call, execute_tool(call.name, call.input))>>
        /\ fs' = Apply(fs, execute_tool(call.name, call.input).effects)
        /\ UNCHANGED <<loopVars, planVars>>

\* get_api_key(allow_interactive, require_key, project_path); project_path is
\* given or not.
GetApiKey ==
    /\ called = <<>>
    /\ \E env \in Environments, allow_interactive \in BOOLEAN, require_key \in BOOLEAN,
          project_path \in BOOLEAN :
        /\ called' = <<Called("get_api_key",
                              [env |-> env, allow_interactive |-> allow_interactive,
                               require_key |-> require_key,
                               project_path |-> project_path],
                              get_api_key(env, allow_interactive, require_key,
                                          project_path))>>
        /\ UNCHANGED <<loopVars, planVars, fs>>

\* list_project_structure(project_path, max_depth)
ListProjectStructure ==
    /\ called = <<>>
    /\ \E project_path \in Projects, max_depth \in 0..(MaxLevel + 1) :
        /\ called' = <<Called("list_project_structure",
                              [project_path |-> project_path, max_depth |-> max_depth],
                              list_project_structure(project_path, max_depth))>>
        /\ UNCHANGED <<loopVars, planVars, fs>>

\* A call of a file tool in a row of such calls: the log entry keeps the
\* filesystem the call found.
FileCall(before, call, out) ==
    [fn |-> "execute_tool", args |-> call, out |-> out, before |-> before]

\* The calls made one after the other on the same project: those on the
\* paths below the project root.
RowInputs == {call \in FileInputs : call.input.file_path \in {"app.py", "docs"}}

\* execute_tool of read_file or write_file, one call after the other on the
\* same project.
FileTool ==
    /\ Len(called) < MaxCalls
    /\ \A i \in DOMAIN called : "before" \in DOMAIN called[i]
    /\ \E call \in RowInputs :
         LET out == execute_tool(call.name, call.input)
         IN /\ called' = Append(called, FileCall(fs, call, out))
            /\ fs' = Apply(fs, out.effects)
    /\ UNCHANGED <<loopVars, planVars>>

\* The calls of a row in which the approval gate may come before a write or
\* a command: the gate on the proposal the operator approves, a write, two
\* commands.
GatedInputs ==
    {[name |-> "ask_developer_for_approval",
      input |-> [phase_name |-> "add health endpoint", plan_summary |-> "s",
                 files_to_modify |-> <<"app.py">>, estimated_complexity |-> "high"]],
     [name |-> "write_file", input |-> [file_path |-> "app.py", content |-> "x"]],
     [name |-> "run_command", input |-> [cmd |-> "pytest"]],
     [name |-> "run_command", input |-> [cmd |-> "false"]]}

\* A call in such a row: the log entry keeps the filesystem the call found.
GatedCall(found, call, out) ==
    [fn |-> "execute_tool", args |-> call, out |-> out, found |-> found]

\* execute_tool called in a row, with and without the gate before a write or
\* a command.
ToolAfterGate ==
    /\ Len(called) < MaxCalls + 1
    /\ \A i \in DOMAIN called : "found" \in DOMAIN called[i]
    /\ \E call \in GatedInputs :
         LET out == execute_tool(call.name, call.input)
         IN /\ called' = Append(called, GatedCall(fs, call, out))
            /\ fs' = Apply(fs, out.effects)
    /\ UNCHANGED <<loopVars, planVars>>

\* The plan files the persistence functions are called on: a directory, a
\* file that is no JSON, a plan file whose created_at is no date, a saved
\* plan; plan.json and the file under plans[/b] do not exist.
PlanDisk ==
    (<<"plans", "">> :> [syntax |-> "dir"])
    @@ (<<"broken", ".json">> :> [syntax |-> "text"])
    @@ (<<"dated", ".json">> :>
            [syntax |-> "json",
             doc |-> [model_dump(ImplementationPlan(<<>>, 0))
                          EXCEPT !.created_at = <<"text", "[/b]">>]])
    @@ (<<"saved", ".json">> :> save_plan(ImplementationPlan(<<>>, 0), "json"))

PlanPaths == DOMAIN PlanDisk \cup {<<"plan", ".json">>, <<"plans[/b]/plan", ".json">>}

\* save_plan(plan, filename, format), load_plan(filename) and
\* resume_plan(plan_path, project_path, model), each called once.
SavePlanCall ==
    /\ called = <<>>
    /\ \E filename \in PlanPaths :
        /\ called' = <<Called("save_plan", [disk |-> PlanDisk, filename |-> filename],
                              SavePlanOutcome(PlanDisk, filename))>>
        /\ UNCHANGED <<loopVars, planVars, fs>>

LoadPlanCall ==
    /\ called = <<>>
    /\ \E filename \in PlanPaths :
        /\ called' = <<Called("load_plan", [disk |-> PlanDisk, filename |-> filename],
                              LoadPlanOutcome(PlanDisk, filename))>>
        /\ UNCHANGED <<loopVars, planVars, fs>>

ResumePlan ==
    /\ called = <<>>
    /\ \E plan_path \in PlanPaths :
        /\ called' = <<Called("resume_plan", [disk |-> PlanDisk, filename |-> plan_path],
                              resume_plan(PlanDisk, plan_path))>>
        /\ UNCHANGED <<loopVars, planVars, fs>>

ToolNext ==
    \/ SavePlanCall
    \/ LoadPlanCall
    \/ ResumePlan
    \/ ExecuteTool
    \/ FileTool
    \/ ToolAfterGate
    \/ GetApiKey
    \/ ListProjectStructure

ToolSpec == ToolInit /\ [][ToolNext]_vars

TypeOK ==
    /\ pc \in {"not_started", "loop", "inflight", "for_blocks", "executing",
              "after_loop", "returned", "raised"}
    /\ iteration \in 0..max_iterations
    /\ inflight \in 0..1
    /\ Len(called) <= MaxCalls + 1

\* ----------------------------------------------------------- properties
ToolUses(content) == SelectSeq(content, LAMBDA b : b.type = "tool_use")

IsFailurePayload(result) == "error" \in DOMAIN result /\ result.error # NoText

IsApprovalOf(e, decision) ==
    /\ e.name = "ask_developer_for_approval"
    /\ "approved" \in DOMAIN e.out.result
    /\ e.out.result.approved = decision

\* The text is one of the parts of the error message.
Carries(error, text) == \E i \in DOMAIN error : error[i] = text

\* The turn (iteration) in which a logged call was requested.
TurnOf(e) == e.id[1]

\* The tool_use turn of the last reply is over: control has left its for loop.
TurnOver == response.stop_reason = "tool_use" /\ pc \notin {"for_blocks", "executing"}

\* C1: no write-type tool call (write_file, run_command) is executed unless an
\* earlier ask_developer_for_approval call of the run returned approved=true.
C1_WriteOnlyAfterApproval ==
    \A i \in DOMAIN executed :
        executed[i].name \in WriteTools
            => \E j \in 1..(i - 1) : IsApprovalOf(executed[j], TRUE)

\* C2: within one tool_use turn, once an ask_developer_for_approval call has
\* returned approved=false, no write-type tool call that appears later in the
\* same reply is executed.
C2_NoWriteAfterRejectionInTurn ==
    \A i \in DOMAIN executed : \A j \in DOMAIN executed :
        (/\ i < j
         /\ TurnOf(executed[i]) = TurnOf(executed[j])
         /\ IsApprovalOf(executed[i], FALSE))
            => executed[j].name \notin WriteTools

\* C3: execute_tool never lets an exception escape: when the capability raises,
\* it returns a failure payload whose error text carries the tool name and the
\* exception text; otherwise it returns the capability's result.
C3_DispatchNeverRaises ==
    \A i \in DOMAIN executed :
        LET e == executed[i]
            d == Dispatch(e.name, e.input)
        IN /\ ~e.out.escaped
           /\ d.raises => /\ IsFailurePayload(e.out.result)
                          /\ DOMAIN e.out.result = {"error"}
                          /\ Carries(e.out.result.error, e.name)
                          /\ Carries(e.out.result.error, d.exc)
           /\ ~d.raises => e.out.result = d.value

\* C4: a tool execution failure is never fatal to the loop: when a dispatched
\* call has returned a failure payload, the loop has recorded a tool-result for
\* it, and once control has left the for loop of the turn every call of the
\* reply has been dispatched, the batch is the last message of the history,
\* the loop has not stopped on an error, and the next request can be issued if
\* the cap allows.
C4_ToolFailureNotFatal ==
    \A i \in DOMAIN executed :
        LET e == executed[i]
            calls == ToolUses(response.content)
            last == messages[Len(messages)]
        IN (/\ IsFailurePayload(e.out.result)
            /\ TurnOf(e) = iteration
            /\ response.stop_reason = "tool_use")
           => IF pc \in {"for_blocks", "executing"}
              THEN \E k \in DOMAIN tool_results :
                       /\ tool_results[k].tool_use_id = e.id
                       /\ tool_results[k].content = Str(e.out.result)
              ELSE /\ \A k \in DOMAIN calls :
                          \E j \in DOMAIN executed : executed[j].id = calls[k].id
                   /\ last.role = "user"
                   /\ \E k \in DOMAIN last.content :
                          /\ last.content[k].type = "tool_result"
                          /\ last.content[k].tool_use_id = e.id
                   /\ pc # "raised"
                   /\ \A d \in displayed : d.level # "error"
                   /\ (pc = "loop" /\ iteration < max_iterations) => ENABLED Request

\* C5: on a tool_use reply the loop produces exactly one tool-result per
\* requested tool call, keyed by the call's correlation id, in the order of the
\* calls in the reply, and appends them as a single user message, after the
\* assistant message, before the next request.
C5_OneResultPerCallInOrder ==
    TurnOver =>
        LET calls == ToolUses(response.content)
            n == Len(messages)
        IN /\ n >= 3
           /\ messages[n - 1] = [role |-> "assistant", content |-> response.content]
           /\ messages[n].role = "user"
           /\ Len(messages[n].content) = Len(calls)
           /\ \A i \in DOMAIN calls :
                  /\ messages[n].content[i].type = "tool_result"
                  /\ messages[n].content[i].tool_use_id = calls[i].id
           /\ \A i \in DOMAIN calls : \A j \in DOMAIN calls :
                  calls[i].id = calls[j].id => i = j

\* C6: the loop is strictly sequential: at most one tool call executes at any
\* time, a call starts only after the previous call of the turn has returned,
\* no call executes while a service request is in flight, and no request is
\* issued while a call executes.
C6_StrictlySequential ==
    /\ Len(running) <= 1
    /\ inflight <= 1
    /\ ~(inflight > 0 /\ running # <<>>)
    /\ running # <<>> =>
           /\ pc = "executing"
           /\ running[1] = response.content[blockIdx].id
           /\ Len(tool_results) = Len(ToolUses(SubSeq(response.content, 1, blockIdx - 1)))
           /\ \A k \in 1..(blockIdx - 1) :
                  response.content[k].type = "tool_use"
                      => \E i \in DOMAIN executed : executed[i].id = response.content[k].id

\* The second call of a turn executes after the first has returned.
C6_Witness ==
    /\ running # <<>>
    /\ blockIdx = 2
    /\ Len(tool_results) = 1

\* C7: when the service replies end_turn on iteration k the loop halts after
\* exactly k service requests, reports success, and issues no further service
\* request and no tool call.
C7_EndTurnHalts ==
    response.stop_reason = "end_turn" =>
        /\ pc \in {"after_loop", "returned"}
        /\ requests = iteration
        /\ Success("Task completed!") \in displayed
        /\ inflight = 0
        /\ running = <<>>
        /\ \A i \in DOMAIN executed : TurnOf(executed[i]) < iteration

CapExhausted ==
    /\ pc = "returned"
    /\ Success("Task completed!") \notin displayed
    /\ \A kind \in RequestFailures : Error(kind) \notin displayed

\* C9: when the cap is exhausted without an end_turn reply or a fatal error the
\* loop halts and reports the maximum-iterations condition as a warning, not as
\* an error, and the conversation history stays as the last completed turn
\* left it.
C9_CapExhaustedIsWarning ==
    /\ [](CapExhausted =>
            /\ iteration = max_iterations
            /\ requests = max_iterations
            /\ \E d \in displayed :
                   d.what = "Reached maximum iterations" /\ d.level = "warning"
            /\ \A d \in displayed :
                   d.what = "Reached maximum iterations" => d.level = "warning")
    /\ [][(pc \in {"loop", "after_loop", "returned"} /\ iteration >= max_iterations)
            => messages' = messages]_vars

\* The cap exhausted by tool_use turns.
C9_Witness ==
    /\ CapExhausted
    /\ response.stop_reason = "tool_use"
    /\ ToolUses(response.content) # <<>>

\* A step in which a reply with stop reason max_tokens is received.
TruncatedReply ==
    /\ pc = "inflight"
    /\ messages' # messages
    /\ response'.stop_reason = "max_tokens"

\* C10: on a max_tokens reply the loop appends one synthetic continuation
\* instruction as a user message and returns to requesting the service; the
\* truncated turn consumes one iteration of the overall cap and there is no
\* separate retry counter for truncation.
C10_TruncationContinues ==
    /\ [][TruncatedReply =>
            /\ messages' = messages \o <<[role |-> "assistant",
                                          content |-> response'.content],
                                         ContinueMessage>>
            /\ pc' = "loop"
            /\ iteration' = iteration
            /\ executed' = executed]_vars
    /\ []((pc = "loop" /\ response.stop_reason = "max_tokens")
            => (iteration < max_iterations <=> ENABLED Request))
    /\ [](requests = iteration)

\* The forty-ninth truncated reply in a row is followed by one more request.
C10_Witness ==
    /\ pc = "inflight"
    /\ response.stop_reason = "max_tokens"
    /\ iteration = max_iterations
    /\ Len(messages) = 2 * max_iterations - 1

\* The loop has stopped on an exception: its handler reported it, or the
\* handler itself raised and the exception left run_planning_agent.
StoppedOnException ==
    \/ pc = "raised"
    \/ \E kind \in RequestFailures : Error(kind) \in displayed

\* C11: when a service request fails with a service-level error, or any other
\* exception is raised during a turn, the loop halts at once: the failed
\* request is not retried, no further request is issued, no tool call is
\* executed afterwards, and the error is reported.
C11_ExceptionHaltsAndIsReported ==
    StoppedOnException =>
        /\ pc \in {"after_loop", "returned"}
        /\ \E kind \in RequestFailures : Error(kind) \in displayed
        /\ inflight = 0
        /\ running = <<>>
        /\ requests = iteration
        /\ ~ENABLED Request
        /\ ~ENABLED StartTool
        /\ ~ENABLED ToolReturns

\* ------------------------------------------------------ plan properties
\* The phase is in the plan and completed.
NamesCompletedPhase(self, dep) ==
    \E k \in DOMAIN self.phases :
        self.phases[k].id = dep /\ self.phases[k].status = "completed"

\* The positions of the phases that are ready: pending, with every dependency
\* naming a completed phase of the plan.
ReadyPositions(self) ==
    {i \in DOMAIN self.phases :
        /\ self.phases[i].status = "pending"
        /\ \A k \in DOMAIN self.phases[i].dependencies :
               NamesCompletedPhase(self, self.phases[i].dependencies[k])}

\* The n-th smallest element of a set of positions.
NthOf(positions, n) ==
    CHOOSE i \in positions : Cardinality({j \in positions : j < i}) = n - 1

\* C12: get_pending_phases() returns exactly the phases whose status is pending
\* and whose every dependency id names a phase of the plan with status
\* completed, in insertion order; a pending phase with a dependency that is
\* not completed, or that names no phase of the plan, is never returned.
C12_PendingPhasesAreTheReadySet ==
    lastOp.op = "get_pending_phases" =>
        LET ready == ReadyPositions(lastOp.before)
        IN /\ Len(lastOp.ret) = Cardinality(ready)
           /\ \A n \in DOMAIN lastOp.ret :
                  lastOp.ret[n] = lastOp.before.phases[NthOf(ready, n)]
           /\ \A n \in DOMAIN lastOp.ret :
                  /\ lastOp.ret[n].status = "pending"
                  /\ \A k \in DOMAIN lastOp.ret[n].dependencies :
                         /\ lastOp.ret[n].dependencies[k] # UnknownPhaseId
                         /\ NamesCompletedPhase(lastOp.before,
                                                lastOp.ret[n].dependencies[k])

\* The query is made on a plan with a pending phase that is held back by a
\* dependency that names no phase, and it returns a phase.
C12_Witness ==
    /\ lastOp.op = "get_pending_phases"
    /\ Len(lastOp.ret) = 1
    /\ lastOp.ret[1].id = "p2"
    /\ lastOp.before.phases[1].status = "pending"
    /\ lastOp.before.phases[1].dependencies = <<UnknownPhaseId>>

Mutators == {"start_phase", "mark_phase_complete", "mark_phase_failed"}

\* The last call was a mutator called with the id of a phase of the plan.
MutatedExistingPhase(op) == lastOp.op = op /\ get_phase(lastOp.before, lastOp.arg) # 0

\* The phase the last call named, as it is now.
NamedPhase == plan.phases[get_phase(lastOp.before, lastOp.arg)]

\* C13: for an existing phase id, start_phase sets the phase's status to
\* in_progress and records a start timestamp; mark_phase_complete sets the
\* status to completed and records a completion timestamp;
\* mark_phase_failed(id, error) sets the status to failed and stores exactly
\* the given error string in error_message.
C13_MutatorsSetStatusAndStamp ==
    /\ MutatedExistingPhase("start_phase") =>
           /\ NamedPhase.id = lastOp.arg
           /\ NamedPhase.status = "in_progress"
           /\ NamedPhase.started_at = DateTime(now)
    /\ MutatedExistingPhase("mark_phase_complete") =>
           /\ NamedPhase.id = lastOp.arg
           /\ NamedPhase.status = "completed"
           /\ NamedPhase.completed_at = DateTime(now)
    /\ MutatedExistingPhase("mark_phase_failed") =>
           /\ NamedPhase.id = lastOp.arg
           /\ NamedPhase.status = "failed"
           /\ NamedPhase.error_message = lastOp.error

\* A phase that was started by a call is then failed with an error text.
C13_Witness ==
    /\ MutatedExistingPhase("mark_phase_failed")
    /\ lastOp.before.phases[get_phase(lastOp.before, lastOp.arg)].status = "in_progress"
    /\ lastOp.before.phases[get_phase(lastOp.before, lastOp.arg)].started_at = DateTime(1)
    /\ lastOp.error = <<"compile error">>

\* C14: start_phase, mark_phase_complete or mark_phase_failed called with a
\* phase id that names no phase of the plan is a no-op: it raises no error and
\* leaves every phase and every plan field, updated_at included, unchanged.
C14_UnknownPhaseIsNoOp ==
    (lastOp.op \in Mutators /\ get_phase(lastOp.before, lastOp.arg) = 0)
        => plan = lastOp.before

\* A call that names no phase is made on a plan that an earlier call changed.
C14_Witness ==
    /\ lastOp.op = "start_phase"
    /\ lastOp.arg = UnknownPhaseId
    /\ lastOp.before.phases # <<>>
    /\ lastOp.before # authored
    /\ lastOp.before.updated_at # DateTime(now)

\* The phase at position i is in the ready set get_pending_phases returns.
InReadySet(self, i) ==
    \E n \in DOMAIN get_pending_phases(self) : get_pending_phases(self)[n] = self.phases[i]

\* Pending phases p1, without dependencies, and p2, depending on p1.
TwoPhaseChain(self) ==
    /\ Len(self.phases) = 2
    /\ self.phases[1].id = "p1" /\ self.phases[1].dependencies = <<>>
    /\ self.phases[2].id = "p2" /\ self.phases[2].dependencies = <<"p1">>
    /\ self.phases[2].status = "pending"

\* C15: for a plan with pending phases p1 (no dependencies) and p2 (depending
\* on p1) the ready set is [p1] at first, [p2] after mark_phase_complete(p1),
\* and empty after mark_phase_failed(p2, e), with p2.error_message = e.  In
\* general a phase enters the ready set only when its last uncompleted
\* dependency is completed, and leaves it when it is failed.
C15_ReadySetFollowsDependencies ==
    /\ (TwoPhaseChain(plan) /\ plan.phases[1].status = "pending")
           => get_pending_phases(plan) = <<plan.phases[1]>>
    /\ (/\ lastOp.op = "mark_phase_complete" /\ lastOp.arg = "p1"
        /\ TwoPhaseChain(lastOp.before) /\ lastOp.before.phases[1].status = "pending")
           => get_pending_phases(plan) = <<plan.phases[2]>>
    /\ (/\ lastOp.op = "mark_phase_failed" /\ lastOp.arg = "p2"
        /\ TwoPhaseChain(lastOp.before) /\ lastOp.before.phases[1].status = "completed")
           => /\ get_pending_phases(plan) = <<>>
              /\ plan.phases[2].error_message = lastOp.error
    /\ lastOp.op \in Mutators =>
           \A i \in DOMAIN plan.phases :
               /\ (~InReadySet(lastOp.before, i) /\ InReadySet(plan, i)) =>
                      /\ lastOp.op = "mark_phase_complete"
                      /\ \E k \in DOMAIN plan.phases[i].dependencies :
                             plan.phases[i].dependencies[k] = lastOp.arg
                      /\ ~NamesCompletedPhase(lastOp.before, lastOp.arg)
                      /\ \A k \in DOMAIN plan.phases[i].dependencies :
                             plan.phases[i].dependencies[k] # lastOp.arg
                                 => NamesCompletedPhase(lastOp.before,
                                                        plan.phases[i].dependencies[k])
               /\ (/\ InReadySet(lastOp.before, i)
                   /\ lastOp.op = "mark_phase_failed"
                   /\ get_phase(lastOp.before, lastOp.arg) = i)
                      => ~InReadySet(plan, i)

\* The whole scenario: p1 was completed by a call, then p2 failed.
C15_Witness ==
    /\ lastOp.op = "mark_phase_failed" /\ lastOp.arg = "p2"
    /\ TwoPhaseChain(authored) /\ authored.phases[1].status = "pending"
    /\ TwoPhaseChain(lastOp.before)
    /\ lastOp.before.phases[1].status = "completed"
    /\ lastOp.before.phases[1].completed_at = DateTime(1)
    /\ get_pending_phases(lastOp.before) = <<lastOp.before.phases[2]>>

\* C16: round trip: load_plan applied to the file written by save_plan yields
\* a plan equal to the original in every field, phases with empty dependency
\* and file-change lists and with null timestamps included.
C16_SaveLoadRoundTrip ==
    (lastOp.op = "load_plan" /\ lastOp.arg \in DOMAIN files)
        => lastOp.ret = <<files[lastOp.arg].saved>>

\* The positions of the phases in progress.
InProgress(self) == {i \in DOMAIN self.phases : self.phases[i].status = "in_progress"}

\* C17: after any sequence of start_phase, mark_phase_complete and
\* mark_phase_failed calls on a plan whose phases all start pending, at most
\* one phase has status in_progress.
C17_AtMostOneInProgress ==
    (\A i \in DOMAIN authored.phases : authored.phases[i].status = "pending")
        => Cardinality(InProgress(plan)) <= 1

\* C18: get_current_phase() returns at most one phase: the first phase in
\* insertion order whose status is in_progress, or nothing when no phase is
\* in_progress; when two phases are in_progress it returns the earlier one.
C18_CurrentPhaseIsFirstInProgress ==
    lastOp.op = "get_current_phase" =>
        LET found == InProgress(lastOp.before)
        IN /\ Len(lastOp.ret) <= 1
           /\ found = {} => lastOp.ret = NoPhase
           /\ found # {} =>
                  /\ lastOp.ret = <<lastOp.before.phases[NthOf(found, 1)]>>
                  /\ \A i \in found : lastOp.ret[1] = lastOp.before.phases[i] =>
                         \A j \in found : i <= j

\* The query is made with two phases in progress, the second of them started
\* by a call.
C18_Witness ==
    /\ lastOp.op = "get_current_phase"
    /\ Cardinality(InProgress(lastOp.before)) = 2
    /\ lastOp.before.phases[2].started_at = DateTime(1)
    /\ lastOp.ret # NoPhase

\* C19: a snapshot of the plan is written after every phase-status mutation:
\* every start_phase, mark_phase_complete or mark_phase_failed that changes a
\* phase is followed by a checkpoint write (auto_save_plan) of the mutated
\* plan before the next mutation.
C19_CheckpointAfterEveryMutation ==
    /\ unsaved <= 1
    /\ lastOp.op = "auto_save_plan" =>
           /\ lastOp.ret \in DOMAIN files
           /\ files[lastOp.ret].saved = plan

\* The checkpoint files on the disk.
CheckpointFiles == {n \in DOMAIN files : n \notin PlanFiles}

\* C20: successive checkpoints of the same plan coexist without overwriting:
\* any two auto_save_plan calls for the same plan id write to two different
\* files, two checkpoints written within the same clock second included.
C20_CheckpointsCoexist == Cardinality(CheckpointFiles) = checkpoints

\* The last call was execute_tool of the approval gate on this proposal.
GateCalled(phase_name) ==
    /\ called # <<>>
    /\ called[1].fn = "execute_tool"
    /\ called[1].args.name = "ask_developer_for_approval"
    /\ called[1].args.input.phase_name = phase_name

\* C21: the approval gate fails closed: it answers approved=true only when
\* the operator gave an explicit affirmative answer (typed y); when there is
\* no input to read, or the operator gave no explicit answer, it does not.
C21_GateFailsClosed ==
    \A p \in Proposals :
        (/\ GateCalled(p)
         /\ "approved" \in DOMAIN called[1].out.result
         /\ called[1].out.result.approved)
            => console_input(p) = <<"y">>

\* The block is a call of the approval gate on a proposal the operator
\* answers with this line.
GateBlock(block, line) ==
    /\ block.type = "tool_use"
    /\ block.name = "ask_developer_for_approval"
    /\ console_input(block.input.phase_name) = <<line>>

\* What the gate answers on a rejection and on an approval.
Rejection == [approved |-> FALSE, feedback |-> Prompt_ask]

Approval == [approved |-> TRUE, feedback |-> None]

\* The results of the gate calls among the blocks 1..n of the reply, as the
\* user message carries them.
GateResultsFedBack(content, n, message) ==
    \A k \in 1..n :
        /\ GateBlock(content[k], "n")
               => \E r \in DOMAIN message.content :
                      message.content[r] = ToolResult(content[k], Rejection)
        /\ GateBlock(content[k], "y")
               => \E r \in DOMAIN message.content :
                      message.content[r] = ToolResult(content[k], Approval)

CommandCalled ==
    /\ called # <<>>
    /\ called[1].fn = "execute_tool"
    /\ called[1].args.name = "run_command"

\* The timeout the call runs under.
TimeoutOf(tool_input) ==
    IF "timeout" \in DOMAIN tool_input THEN tool_input.timeout ELSE DefaultTimeout

\* C23: a run_command whose subprocess exceeds its timeout (300 seconds when
\* the call names none) comes back as a result value with success=false and
\* the timeout message, nothing is raised, and the command was started
\* exactly once.
C23_TimeoutIsAFailureResult ==
    (/\ CommandCalled
     /\ Duration(called[1].args.input.cmd) > TimeoutOf(called[1].args.input))
        => /\ called[1].out.ran = <<"run_command", "subprocess.run">>
           /\ ~called[1].out.escaped
           /\ called[1].out.result.success = FALSE
           /\ called[1].out.result.error =
                  <<"Command timed out after ">>
                      \o StrInt(TimeoutOf(called[1].args.input)) \o <<" seconds">>

\* C24: execute_tool called with a name outside the catalog of 14 tools
\* returns the failure payload that names the unknown tool, starts no
\* capability and raises nothing.
C24_UnknownToolIsAFailurePayload ==
    /\ Cardinality(ToolCatalog) = 14
    /\ (/\ called # <<>>
        /\ called[1].fn = "execute_tool"
        /\ called[1].args.name \notin ToolCatalog)
           => /\ ~called[1].out.escaped
              /\ called[1].out.ran = <<>>
              /\ called[1].out.result = [error |-> <<"Unknown tool: ", called[1].args.name>>]

\* execute_tool was called with the name deploy.
C24_Witness ==
    /\ called # <<>>
    /\ called[1].fn = "execute_tool"
    /\ called[1].args = [name |-> "deploy", input |-> [cmd |-> "pytest"]]
    /\ IsFailurePayload(called[1].out.result)

\* C25: get_api_key called with require_key=true either returns a non-empty
\* API key or ends the process with exit status 1; it never returns without
\* a key.
C25_KeyOrExit ==
    (/\ called # <<>>
     /\ called[1].fn = "get_api_key"
     /\ called[1].args.require_key)
        => \/ called[1].out.exits /\ called[1].out.status = 1
           \/ /\ ~called[1].out.exits
              /\ called[1].out.api_key \notin {None, ""}

\* The number of entries of the kind (directories or files) that lie in
\* these items, which are at this level, or below them, and at most d levels
\* below the project root.
RECURSIVE EntriesWithin(_, _, _, _)
EntriesWithin(items, level, d, dirs) ==
    IF items = {} \/ level > d THEN 0
    ELSE LET x == CHOOSE y \in items : TRUE
         IN (IF x.is_dir = dirs THEN 1 ELSE 0)
            + EntriesWithin(x.items, level + 1, d, dirs)
            + EntriesWithin(items \ {x}, level, d, dirs)

\* The lines of the tree below the root line that are directories or files.
EntryLines(tree, dirs) == {k \in 2..Len(tree) : tree[k].slash = dirs}

\* The last call was list_project_structure.
StructureListed == called # <<>> /\ called[1].fn = "list_project_structure"

\* C26: list_project_structure(max_depth=d) lists an entry only if it lies at
\* most d levels below the project root (the root's children are level 1):
\* every line of the tree is of a level up to d, file_count and
\* directory_count count the listed lines, and neither exceeds the number of
\* files or directories the project holds within d levels.
C26_NothingDeeperThanMaxDepth ==
    StructureListed =>
        LET d == called[1].args.max_depth
            project == called[1].args.project_path
            out == called[1].out
        IN /\ \A k \in 2..Len(out.tree) : Len(out.tree[k].prefix) + 1 <= d
           /\ out.file_count = Cardinality(EntryLines(out.tree, FALSE))
           /\ out.directory_count = Cardinality(EntryLines(out.tree, TRUE))
           /\ out.file_count <= EntriesWithin(project.items, 1, d, FALSE)
           /\ out.directory_count <= EntriesWithin(project.items, 1, d, TRUE)

\* A project with a file at each of the levels 1 to 3 was listed with
\* max_depth=2: the entries of levels 1 and 2 are listed and counted, the file
\* of level 3 is not.
C26_Witness ==
    /\ StructureListed
    /\ called[1].args.max_depth = 2
    /\ called[1].args.project_path =
           Dir("project",
               {File("a.py"),
                Dir("pkg", {File("a.py"), Dir("pkg", {File("a.py")})})})
    /\ called[1].out.file_count = 2
    /\ called[1].out.directory_count = 2
    /\ Len(called[1].out.tree) = 5

\* Every phase of the plan as it was authored is pending.
AuthoredAllPending ==
    \A i \in DOMAIN authored.phases : authored.phases[i].status = "pending"

\* C27: after any sequence of start_phase, mark_phase_complete and
\* mark_phase_failed calls on a plan whose phases all start pending, a phase
\* is in_progress or completed only if every one of its dependencies is
\* completed.
C27_DependencyGating ==
    AuthoredAllPending =>
        \A i \in DOMAIN plan.phases :
            plan.phases[i].status \in {"in_progress", "completed"}
                => \A k \in DOMAIN plan.phases[i].dependencies :
                       NamesCompletedPhase(plan, plan.phases[i].dependencies[k])

\* The phase the last call named, as it was before the call.
NamedPhaseBefore == lastOp.before.phases[get_phase(lastOp.before, lastOp.arg)]

\* Every phase but the named one is as before the call, in the same order,
\* and the plan differs from the one before at most in the named phase and
\* in updated_at (task description, approval fields and overall complexity
\* are as before).
OnlyNamedPhaseAndStamp ==
    /\ Len(plan.phases) = Len(lastOp.before.phases)
    /\ \A j \in DOMAIN plan.phases :
           j # get_phase(lastOp.before, lastOp.arg)
               => plan.phases[j] = lastOp.before.phases[j]
    /\ plan = [lastOp.before EXCEPT !.phases = plan.phases,
                                    !.updated_at = plan.updated_at]

\* C28: start_phase, mark_phase_complete and mark_phase_failed on an
\* existing phase id change only the named phase, in its status and in its
\* start timestamp, completion timestamp or error message respectively, and
\* the plan's updated_at; every other phase, and the plan's task description,
\* approval fields, phase order and complexity, are unchanged.
C28_MutatorsChangeOnlyTheirPhase ==
    /\ MutatedExistingPhase("start_phase") =>
           /\ OnlyNamedPhaseAndStamp
           /\ NamedPhase = [NamedPhaseBefore EXCEPT !.status = NamedPhase.status,
                                                    !.started_at = NamedPhase.started_at]
    /\ MutatedExistingPhase("mark_phase_complete") =>
           /\ OnlyNamedPhaseAndStamp
           /\ NamedPhase = [NamedPhaseBefore EXCEPT !.status = NamedPhase.status,
                                                    !.completed_at = NamedPhase.completed_at]
    /\ MutatedExistingPhase("mark_phase_failed") =>
           /\ OnlyNamedPhaseAndStamp
           /\ NamedPhase = [NamedPhaseBefore EXCEPT !.status = NamedPhase.status,
                                                    !.error_message = NamedPhase.error_message]

\* A started phase of a plan of two phases is failed: its start timestamp and
\* the other phase stay as they were.
C28_Witness ==
    /\ MutatedExistingPhase("mark_phase_failed")
    /\ Len(plan.phases) = 2
    /\ NamedPhaseBefore.status = "in_progress"
    /\ NamedPhaseBefore.started_at # NoTime
    /\ NamedPhase.started_at = NamedPhaseBefore.started_at
    /\ plan.updated_at # lastOp.before.updated_at

\* The last call was one of the four operations that change a phase.
Transitioned == lastOp.op \in Mutators \cup {"update_plan_step"}

\* C29: phases are never deleted, only transitioned: start_phase,
\* mark_phase_complete, mark_phase_failed and update_plan_step never add,
\* remove or reorder phases.  Each call leaves as many phases as before, with
\* every phase but the named one unchanged at its position, and after any
\* sequence of calls the plan has as many phases as it was authored with.
C29_PhasesNeverDeleted ==
    /\ Len(plan.phases) = Len(authored.phases)
    /\ Transitioned =>
           /\ Len(plan.phases) = Len(lastOp.before.phases)
           /\ \A j \in DOMAIN plan.phases :
                  j # get_phase(lastOp.before, lastOp.arg)
                      => plan.phases[j] = lastOp.before.phases[j]

\* update_plan_step changed the first phase of a plan of two phases.
C29_Witness ==
    /\ lastOp.op = "update_plan_step"
    /\ lastOp.arg = "p1"
    /\ lastOp.ret = <<[success |-> TRUE, error |-> NoText]>>
    /\ Len(plan.phases) = 2
    /\ plan.phases[1].status = "skipped"
    /\ lastOp.before.phases[1].status = "in_progress"

\* The logged call has been handled: its turn is over.
Handled(e) == TurnOf(e) < iteration \/ pc \notin {"for_blocks", "executing"}

\* C30: the outcome of every approval gate call is folded into the plan:
\* once the gate has returned approved=true the plan is approved and
\* approved_at is set, once it has returned a rejection the feedback is in
\* approval_feedback; and the loop writes no other field of the plan.
C30_GateOutcomeFoldedIntoPlan ==
    /\ \A i \in DOMAIN executed :
           (IsApprovalOf(executed[i], TRUE) /\ Handled(executed[i]))
               => /\ plan # NoPlan
                  /\ plan.approved
                  /\ plan.approved_at # NoTime
    /\ \A i \in DOMAIN executed :
           (IsApprovalOf(executed[i], FALSE) /\ Handled(executed[i]))
               => /\ plan # NoPlan
                  /\ plan.approval_feedback = <<executed[i].out.result.feedback>>
    /\ plan # NoPlan
           => [plan EXCEPT !.approved = authored.approved,
                           !.approved_at = authored.approved_at,
                           !.approval_feedback = authored.approval_feedback] = authored

\* ------------------------------------------------------ file properties
\* The i-th logged call is a call of the file tool in a row of file calls.
IsFileCall(i, name) ==
    /\ "before" \in DOMAIN called[i]
    /\ called[i].args.name = name

\* The path the i-th logged call opens, and its location.
PathOfCall(i) == Join(ProjectRoot, Path(called[i].args.input.file_path))

\* The backup flag of the i-th logged call.
BackupOf(i) ==
    IF "backup" \in DOMAIN called[i].args.input THEN called[i].args.input.backup ELSE TRUE

\* The filesystem the i-th logged call left.
LeftBy(i) == IF i = Len(called) THEN fs ELSE called[i + 1].before

\* The location holds a regular file.
IsFileAt(disk, at) == at \in DOMAIN disk /\ disk[at].kind = "file"

\* The location holds the same in both filesystems, or nothing in both.
SameAt(d1, d2, at) ==
    /\ at \in DOMAIN d1 <=> at \in DOMAIN d2
    /\ at \in DOMAIN d1 => d1[at] = d2[at]

\* The log is a row of successful write_file calls with backup on one path
\* that held a file before the first of them.
BackedUpWritesToOnePath ==
    /\ called # <<>>
    /\ \A i \in DOMAIN called :
           /\ IsFileCall(i, "write_file")
           /\ BackupOf(i)
           /\ called[i].args.input.file_path = called[1].args.input.file_path
    /\ IsFileAt(called[1].before, Location(PathOfCall(1)))

C39_FileToolsStayInsideRoot ==
    \A i \in DOMAIN called :
        (/\ called[i].fn = "execute_tool"
         /\ called[i].args.name \in {"read_file", "write_file"}) =>
            \A k \in DOMAIN called[i].out.effects :
                /\ Inside(called[i].out.effects[k].at, Location(ProjectRoot))
                /\ Inside(called[i].out.effects[k].from, Location(ProjectRoot))

\* ------------------------------------------------- approval independence
\* A call of the approval gate that returned approved=true comes before the
\* i-th call of the row.
ApprovedBefore(i) ==
    \E j \in 1..(i - 1) :
        /\ called[j].args.name = "ask_developer_for_approval"
        /\ "approved" \in DOMAIN called[j].out.result
        /\ called[j].out.result.approved

\* The i-th and the j-th call of the row are the same write or command on the
\* same filesystem.
SameWriteCall(i, j) ==
    /\ "found" \in DOMAIN called[i]
    /\ "found" \in DOMAIN called[j]
    /\ called[i].args.name \in WriteTools
    /\ called[i].args = called[j].args
    /\ called[i].found = called[j].found

PersistenceCalled(fn) == called # <<>> /\ called[1].fn = fn

\* C32: persistence failures are values, not exceptions: save_plan returns
\* success=false with an error string and never raises; load_plan returns
\* None and never raises when the file is missing or malformed; resume_plan,
\* when load_plan returns None, reports the failure and returns without a
\* service request or a tool call.
C32_PersistenceFailuresAreValues ==
    /\ PersistenceCalled("save_plan") =>
           /\ ~called[1].out.raises
           /\ ~called[1].out.value.success => called[1].out.value.error # NoText
    /\ PersistenceCalled("load_plan") =>
           /\ ~called[1].out.raises
           /\ load_plan(called[1].args.disk, called[1].args.filename) = NoPlan
                  => called[1].out.value = NoPlan
    /\ (/\ PersistenceCalled("resume_plan")
        /\ load_plan(called[1].args.disk, called[1].args.filename) = NoPlan) =>
           /\ ~called[1].out.raises
           /\ called[1].out.ran = <<"display_info", "load_plan", "display_error">>

\* ------------------------------------------------- end of run and history
\* C33: the maximum-iterations warning is reported only when the loop stopped
\* because the cap was exhausted: a run that ended with end_turn or with a
\* fatal error never also reports it, also when the end_turn or the error
\* came on the 50th iteration.
C33_CapWarningOnlyWhenExhausted ==
    MaxIterationsReport \in displayed =>
        /\ Success("Task completed!") \notin displayed
        /\ \A d \in displayed : d.level # "error"

\* The tool call of an assistant message at position i has its result, by
\* correlation id, in the user message that follows.
Answered(i, block) ==
    /\ i < Len(messages)
    /\ messages[i + 1].role = "user"
    /\ \E r \in DOMAIN messages[i + 1].content :
           /\ messages[i + 1].content[r].type = "tool_result"
           /\ messages[i + 1].content[r].tool_use_id = block.id

\* C34: every tool call in an assistant message of the history is answered
\* by a tool result with the same correlation id in the user message that
\* follows it, for every stop reason of the reply that carried it; no
\* request is sent with an unanswered tool call in the history.
C34_NoRequestWithUnansweredCall ==
    pc = "inflight" =>
        \A i \in DOMAIN messages :
            messages[i].role = "assistant" =>
                \A k \in DOMAIN messages[i].content :
                    messages[i].content[k].type = "tool_use"
                        => Answered(i, messages[i].content[k])

\* C35: at every service request the history starts with the task message of
\* the user, alternates strictly between user and assistant and ends with a
\* user message, for every sequence of replies.
C35_HistoryAlternates ==
    pc = "inflight" =>
        /\ messages[1] = UserText("task")
        /\ \A i \in DOMAIN messages :
               messages[i].role = IF i % 2 = 1 THEN "user" ELSE "assistant"
        /\ messages[Len(messages)].role = "user"

\* ----------------------------------------------------- status and stamps
\* Every phase has what goes with its status, and none is skipped.
WellStamped(self) ==
    \A i \in DOMAIN self.phases :
        /\ self.phases[i].status = "in_progress" => self.phases[i].started_at # NoTime
        /\ self.phases[i].status = "completed" => self.phases[i].completed_at # NoTime
        /\ self.phases[i].status = "failed" => self.phases[i].error_message # NoText
        /\ self.phases[i].status # "skipped"

\* C36: after any sequence of start_phase, mark_phase_complete and
\* mark_phase_failed calls on a plan whose phases all start pending with
\* null timestamps, every phase in_progress has started_at set, every phase
\* completed has completed_at set, every phase failed has error_message set,
\* and no phase is skipped: the plan authored all pending is so, and each of
\* the three calls keeps it so.
C36_StatusHasItsStamp ==
    /\ AuthoredAllPending => WellStamped(authored)
    /\ (lastOp.op \in Mutators /\ WellStamped(lastOp.before)) => WellStamped(plan)

\* A phase authored pending was failed and then started: it is in progress
\* with its start recorded, and the error of the failure is still there.
C36_Witness ==
    /\ AuthoredAllPending
    /\ planCalls = 2
    /\ lastOp.op = "start_phase"
    /\ Len(plan.phases) >= 1
    /\ lastOp.before.phases[1].status = "failed"
    /\ plan.phases[1].status = "in_progress"
    /\ plan.phases[1].started_at # NoTime
    /\ plan.phases[1].error_message = <<"compile error">>

\* The ids of the completed phases.
CompletedIds(self) ==
    {self.phases[i].id : i \in {j \in DOMAIN self.phases :
                                  self.phases[j].status = "completed"}}

\* C37: completed is a terminal status: once a phase is completed no later
\* start_phase or mark_phase_failed call changes its status, so the set of
\* completed phases only grows.
C37_CompletedIsTerminal ==
    lastOp.op \in {"start_phase", "mark_phase_failed"} =>
        /\ \A i \in DOMAIN lastOp.before.phases :
               lastOp.before.phases[i].status = "completed"
                   => plan.phases[i].status = "completed"
        /\ CompletedIds(lastOp.before) \subseteq CompletedIds(plan)

\* C38: phase ids stay unique within a plan: from a plan with pairwise
\* distinct phase ids, after any sequence of start_phase,
\* mark_phase_complete, mark_phase_failed and update_plan_step calls no two
\* phases share an id.
C38_PhaseIdsStayUnique ==
    \A i, j \in DOMAIN plan.phases :
        plan.phases[i].id = plan.phases[j].id => i = j

====
